---- MODULE Spec2Model ----
(***************************************************************************)
(* A model of four parts of the circulation manager:                       *)
(*   - HasSessionCache        (src/core/model/hassessioncache.py)          *)
(*   - OPDS2Importer.extract_feed_data (src/core/opds2_import.py)          *)
(*   - S3Uploader.mirror_batch (src/s3.py)                                 *)
(*   - the import run of OPDSImporter as exercised by                      *)
(*     src/tests/test_opds_import.py                                       *)
(* Each part has its own specification over its own variables; the         *)
(* variables of the other parts stay at their initial value.               *)
(***************************************************************************)
EXTENDS Integers, Sequences, FiniteSets, TLC

(***************************************************************************)
(* Bounds of the model.                                                    *)
(***************************************************************************)
\* number of rows of the cached table that a run may create
MaxRecords == 3
\* depth to which the recursion of _cache_lookup is unfolded
MaxRetries == 4
\* publications in one feed page
MaxPubs == 3
\* errors the parser reports for one feed page
MaxErrors == 2
\* representations in one call of mirror_batch
MaxBatch == 2
\* last-modified timestamps and cutoffs are 1..MaxTime
MaxTime == 2
\* runs of import_from_feed over the same catalog
MaxRuns == 2
\* links of one publication passed to consolidate_links
MaxLinks == 4
\* URLs the pages of one feed can be fetched from
MaxPages == 3
\* links one page of the feed carries
MaxPageLinks == 1
\* mirror candidates one page produces
MaxCandidates == 2
\* objects in the chain of one indirect-acquisition entry
MaxDepth == 3
\* indirect-acquisition entries of one link
MaxEntries == 2
\* links of one publication read for its medium
MaxPublicationLinks == 2
\* entries of one feed imported into the catalog
MaxFeedEntries == 1
MaxImages == 3

VARIABLES
    \* ---- HasSessionCache ----
    db,        \* the session of the run that uses the cache: object -> row
    cache,     \* CacheTuple: the two tables, .id and .key
    ret,       \* what the last lookup returned, <<object, new>>
    lookup,    \* the lookup that has just returned, NoLookup after another call
    refDb,     \* the session of the same run with the cache disabled
    refRet,    \* what the last lookup returned there
    \* ---- OPDS2Importer.extract_feed_data ----
    ignored,   \* the collection's stored setting IGNORED_IDENTIFIER_TYPE
    fpc,       \* where the call stands: "config", "run", "returned", "raised"
    npubs,     \* publications in the parsed feed
    pubs,      \* the publications _get_publications has yielded so far
    metadata,  \* publication_metadata_dictionary
    failures,  \* failures
    skipped,   \* publications logged as having an unrecognizable identifier
    reported,  \* errors of parser_result.errors handled so far, per node
    raisedBy,  \* what made the call raise: "none", "parse", "extract"
    \* ---- S3Uploader.mirror_batch ----
    mpc,       \* "idle", "upload", "resolve", "close", "returned", "raised"
    reps,      \* representations, mutated in place
    entry,     \* the representations as they were passed in
    filehandles,  \* filehandles: "open" or "closed", in the order opened
    byUrl,     \* representations_by_response_url
    done,      \* the requests whose response process_response has handled
    lastResp,  \* the response process_response handled last, with its request
    logged,    \* what logging.error was called with, in order
    exc,       \* the exception raised inside mirror_batch, "" when none
    \* ---- OPDSImporter.import_from_feed, run after run ----
    spc,       \* "idle", "page", "mirror", "done", "raised"
    updated,   \* the feed of the current run: publication -> last-modified
    cutoff,    \* cutoff_date of the current run, None when not supplied
    uploader,  \* the mirror the importer was built with
    pos,       \* the publication the run is at, in feed order
    catalog,   \* per publication: imported before?, and its representation
    before,    \* the publications the catalog held when the run started
    imported,  \* publications the current run reports as imported
    last,      \* the publication the run handled last, and what was done
    repeated,  \* what the current run repeats of the run before it
    nruns,     \* runs started
    \* ---- OPDSImporter.consolidate_links ----
    links,     \* the relations of the links passed in, in order
    consolidated, \* the list returned
    \* ---- one sync run, page by page ----
    rpc,       \* "idle", the state of the run, "DONE"
    queue,     \* URLs still to fetch
    seen,      \* URLs fetched so far
    nexts,     \* the "next" links extracted from the page being handled
    nonempty,  \* the page being handled has publications
    cands,     \* mirror candidates of the page fetched last and their outcome
    trail,     \* the states the current page has passed through
    revisit,   \* a page named an already fetched URL as its next page
    \* ---- OPDS2Importer, formats and medium of one publication ----
    acquisition,  \* the link passed to _extract_media_types_and_drm_scheme_from_link
    formats,      \* whether the call returned, and the list it returned
    publication,  \* the publication whose medium is extracted
    medium,       \* whether the extraction returned, and the medium
    \* ---- the catalog under import_from_feed ----
    editions,  \* the Edition rows, in the order they were created
    imp,        \* the last import: its data source, the rows it returned, in feed
               \* order, and those of them it created
    \* ---- the works made by import_from_feed ----
    works,  \* the Work rows, in the order they were created
    made,  \* the last import: its flag and the works it created
    \* ---- OPDS2Importer, image links of one publication ----
    images,  \* the image links of the publication passed to _extract_image_links, as declared
    imageLinks,  \* whether the call returned, and the list of LinkData it returned
    \* ---- OPDS2Importer, links and formats of one publication ----
    pub,  \* the publication whose links and formats are extracted
    circulation  \* whether the extraction returned, the links and the formats it made

cacheVars == <<db, cache, ret, lookup, refDb, refRet>>
feedVars == <<ignored, fpc, npubs, pubs, metadata, failures, skipped, reported, raisedBy>>

mirrorVars == <<mpc, reps, entry, filehandles, byUrl, done, lastResp, logged, exc>>

syncVars == <<spc, updated, cutoff, uploader, pos, catalog, before, imported, last,
              repeated, nruns>>

linkVars == <<links, consolidated>>

runVars == <<rpc, queue, seen, nexts, nonempty, cands, trail, revisit>>

extractVars == <<acquisition, formats, publication, medium>>

catalogVars == <<editions, imp>>

worksVars == <<works, made>>

imagesVars == <<images, imageLinks>>

metadataVars == <<pub, circulation>>

vars == <<cacheVars, feedVars, mirrorVars, syncVars, linkVars, runVars, extractVars,
         catalogVars,
         worksVars,
         imagesVars,
         metadataVars>>

\* what the actions of one part leave alone
notCache == <<feedVars, mirrorVars, syncVars, linkVars, runVars, extractVars, catalogVars,
    worksVars,
    imagesVars,
    metadataVars>>
notFeed == <<cacheVars, mirrorVars, syncVars, linkVars, runVars, extractVars, catalogVars,
    worksVars,
    imagesVars,
    metadataVars>>
notMirror == <<cacheVars, feedVars, syncVars, linkVars, runVars, extractVars, catalogVars,
    worksVars,
    imagesVars,
    metadataVars>>
notSync == <<cacheVars, feedVars, linkVars, runVars, extractVars, catalogVars,
    worksVars,
    imagesVars,
    metadataVars>>
notLinks == <<cacheVars, feedVars, mirrorVars, syncVars, runVars, extractVars, catalogVars,
    worksVars,
    imagesVars,
    metadataVars>>
notRun == <<cacheVars, feedVars, mirrorVars, syncVars, linkVars, extractVars, catalogVars,
    worksVars,
    imagesVars,
    metadataVars>>
notExtract == <<cacheVars, feedVars, mirrorVars, syncVars, linkVars, runVars, catalogVars,
    worksVars,
    imagesVars,
    metadataVars>>
notCatalog == <<cacheVars, feedVars, mirrorVars, syncVars, linkVars, runVars, extractVars,
    worksVars,
    imagesVars,
    metadataVars>>
notWorks == <<cacheVars, feedVars, mirrorVars, syncVars, linkVars, runVars,
    extractVars, catalogVars,
    imagesVars,
    metadataVars>>
notImages == <<cacheVars, feedVars, mirrorVars, syncVars, linkVars, runVars,
    extractVars, catalogVars, worksVars,
    metadataVars>>
notMetadata == <<cacheVars, feedVars, mirrorVars, syncVars, linkVars, runVars,
    extractVars, catalogVars, worksVars, imagesVars>>

(***************************************************************************)
(* HasSessionCache                                                         *)
(*                                                                         *)
(* An object of the cached class is a slot 1..MaxRecords; 0 is None.  Its  *)
(* row holds the id, the cache key and where the object stands in the      *)
(* session:                                                                *)
(*   "none"     not created yet                                            *)
(*   "live"     obj in db and obj not in db.deleted                        *)
(*   "deleted"  obj in db.deleted (db.delete(obj), not flushed yet)        *)
(*   "gone"     flushed: obj not in db, attributes still loaded            *)
(*   "expired"  committed: obj not in db, reading obj.id or                *)
(*              obj.cache_key() raises an SQLAlchemyError                  *)
(***************************************************************************)
Objs == 1..MaxRecords
None == 0
Keys == {"a", "b"}
NoRow == [id |-> 0, key |-> "", st |-> "none"]

EmptyCache == [id |-> [i \in Objs |-> None], key |-> [k \in Keys |-> None]]

\* a lookup that takes every cached object to be in the session still
InSession_always(row) == TRUE
InSession(row) == row.st \in {"live", "deleted"}
\* a lookup that forgets to ask the session for its pending deletions
InDeleted_unchecked(row) == FALSE
InDeleted(row) == row.st = "deleted"
Readable(row) == row.st \in {"live", "deleted", "gone"}

\* Session.flush: the pending deletions are carried out
Flushed(d) == [o \in Objs |-> IF d[o].st = "deleted" THEN [d[o] EXCEPT !.st = "gone"] ELSE d[o]]

\* Session.commit: flush, then every attribute is expired
Committed(d) ==
    [o \in Objs |-> IF d[o].st \in {"deleted", "gone"} THEN [d[o] EXCEPT !.st = "expired"] ELSE d[o]]

FreeSlots(d) == {o \in Objs : d[o].st = "none"}
NextSlot(d) == CHOOSE o \in FreeSlots(d) : \A p \in FreeSlots(d) : o <= p

LiveWithId(d, i) == {o \in Objs : d[o].st = "live" /\ d[o].id = i}
LiveWithKey(d, k) == {o \in Objs : d[o].st = "live" /\ d[o].key = k}

\* an insert that writes the by-id table only
CacheInsert_idOnly(o, d, c) == [id |-> [c.id EXCEPT ![d[o].id] = o], key |-> c.key]
\* _cache_insert: both tables are written under the object's own id and key
CacheInsert(o, d, c) ==
    [id |-> [c.id EXCEPT ![d[o].id] = o], key |-> [c.key EXCEPT ![d[o].key] = o]]

\* a removal that only logs what it cannot remove
CacheRemove_logOnly(o, d, c) ==
    IF ~Readable(d[o]) THEN c
    ELSE IF c.id[d[o].id] = None \/ c.key[d[o].key] = None THEN c
    ELSE [id |-> [c.id EXCEPT ![d[o].id] = None], key |-> [c.key EXCEPT ![d[o].key] = None]]
\* _cache_remove: pop the object's id and key; a KeyError or an
\* SQLAlchemyError resets both tables
CacheRemove(o, d, c) ==
    IF ~Readable(d[o]) THEN EmptyCache
    ELSE IF c.id[d[o].id] = None \/ c.key[d[o].key] = None THEN EmptyCache
    ELSE [id |-> [c.id EXCEPT ![d[o].id] = None], key |-> [c.key EXCEPT ![d[o].key] = None]]

\* The cache miss hooks.  Each issues a query, which flushes the session
\* first.  "get_one_id" is by_id's lookup_hook; "get_one" and
\* "get_one_or_create" are what callers of by_cache_key pass.
Hook(h, d) ==
    LET f == Flushed(d) IN
    CASE h.kind = "get_one_id" ->
            LET s == LiveWithId(f, h.arg) IN
            [db |-> f, obj |-> IF s = {} THEN None ELSE CHOOSE o \in s : TRUE, new |-> FALSE]
      [] h.kind = "get_one" ->
            LET s == LiveWithKey(f, h.arg) IN
            [db |-> f, obj |-> IF s = {} THEN None ELSE CHOOSE o \in s : TRUE, new |-> FALSE]
      [] h.kind = "get_one_or_create" ->
            LET s == LiveWithKey(f, h.arg) IN
            IF s # {} THEN [db |-> f, obj |-> CHOOSE o \in s : TRUE, new |-> FALSE]
            ELSE LET n == NextSlot(f) IN
                 [db |-> [f EXCEPT ![n] = [id |-> n, key |-> h.arg, st |-> "live"]],
                  obj |-> n, new |-> TRUE]

\* the hook can run: get_one_or_create needs a free row when it creates
HookCanRun(h, d) ==
    h.kind = "get_one_or_create" /\ LiveWithKey(Flushed(d), h.arg) = {} => FreeSlots(d) # {}

\* _cache_lookup.  fuel bounds the unfolding of the recursive call; the
\* result says whether the lookup returned within it.
RECURSIVE CacheLookup(_, _, _, _, _, _)
CacheLookup(d, c, name, k, h, fuel) ==
    LET o == IF name = "id" THEN c.id[k] ELSE c.key[k] IN
    IF o # None
    THEN IF ~InSession(d[o]) \/ InDeleted(d[o])
         THEN IF fuel = 0
              THEN [db |-> d, cache |-> c, obj |-> None, new |-> FALSE,
                    hits |-> 0, misses |-> 0, retries |-> 0, returned |-> FALSE]
              ELSE LET r == CacheLookup(d, CacheRemove(o, d, c), name, k, h, fuel - 1)
                   IN  [r EXCEPT !.retries = @ + 1]
         ELSE [db |-> d, cache |-> c, obj |-> o, new |-> FALSE,
               hits |-> 1, misses |-> 0, retries |-> 0, returned |-> TRUE]
    ELSE LET m == Hook(h, d) IN
         [db |-> m.db,
          cache |-> IF m.obj # None THEN CacheInsert(m.obj, m.db, c) ELSE c,
          obj |-> m.obj, new |-> m.new,
          hits |-> 0, misses |-> 1, retries |-> 0, returned |-> TRUE]

\* the rows the session has seen created
Rows(d) == {o \in Objs : d[o].st # "none"}

\* a lookup as it returns: the table and the key it was asked for, the object
\* the table held under that key and the rows there were as it was called,
\* what it added to cache.stats, its retries
NoLookup ==
    [name |-> "", id |-> None, key |-> "", found |-> None, rows |-> 0,
     hits |-> 0, misses |-> 0, retries |-> 0]
\* statistics that count every stale hit as a hit
Counted_staleHits(name, i, k, o, n, r) ==
    [name |-> name, id |-> i, key |-> k, found |-> o, rows |-> n,
     hits |-> r.hits + r.retries, misses |-> r.misses, retries |-> r.retries]
Counted(name, i, k, o, n, r) ==
    [name |-> name, id |-> i, key |-> k, found |-> o, rows |-> n,
     hits |-> r.hits, misses |-> r.misses, retries |-> r.retries]

\* the session and the cache as the run starts: no row, empty tables
CacheIdle ==
    /\ db = [o \in Objs |-> NoRow]
    /\ cache = EmptyCache
    /\ ret = <<None, FALSE>>
    /\ lookup = NoLookup
    /\ refDb = [o \in Objs |-> NoRow]
    /\ refRet = <<None, FALSE>>

\* by_id(db, id); with the cache disabled the lookup_hook runs every time
by_id(i) ==
    LET h == [kind |-> "get_one_id", arg |-> i]
        r == CacheLookup(db, cache, "id", i, h, MaxRetries)
        u == Hook(h, refDb)
    IN  /\ r.returned
        /\ db' = r.db
        /\ cache' = r.cache
        /\ ret' = <<r.obj, FALSE>>
        /\ lookup' = Counted("id", i, "", cache.id[i], Cardinality(Rows(db)), r)
        /\ refDb' = u.db
        /\ refRet' = <<u.obj, FALSE>>
        /\ UNCHANGED notCache

\* by_cache_key(db, cache_key, cache_miss_hook)
by_cache_key(k, kind) ==
    LET h == [kind |-> kind, arg |-> k]
        r == CacheLookup(db, cache, "key", k, h, MaxRetries)
        u == Hook(h, refDb)
    IN  /\ HookCanRun(h, db)
        /\ HookCanRun(h, refDb)
        /\ r.returned
        /\ db' = r.db
        /\ cache' = r.cache
        /\ ret' = <<r.obj, r.new>>
        /\ lookup' = Counted("key", None, k, cache.key[k], Cardinality(Rows(db)), r)
        /\ refDb' = u.db
        /\ refRet' = <<u.obj, u.new>>
        /\ UNCHANGED notCache

\* _cache_insert(obj, cache) of an object whose attributes can be read
cache_insert(o) ==
    /\ Readable(db[o])
    /\ cache' = CacheInsert(o, db, cache)
    /\ lookup' = NoLookup
    /\ UNCHANGED <<db, ret, refDb, refRet, notCache>>

\* _cache_remove(obj, cache)
cache_remove(o) ==
    /\ db[o].st # "none"
    /\ cache' = CacheRemove(o, db, cache)
    /\ lookup' = NoLookup
    /\ UNCHANGED <<db, ret, refDb, refRet, notCache>>

\* cache_warm(db) with the default get_objects, db.query(cls).all
cache_warm ==
    LET f == Flushed(db)
        WarmedId == [i \in Objs |->
            IF LiveWithId(f, i) # {} THEN CHOOSE o \in LiveWithId(f, i) : TRUE ELSE cache.id[i]]
        WarmedKey == [k \in Keys |->
            IF LiveWithKey(f, k) # {} THEN CHOOSE o \in LiveWithKey(f, k) : TRUE ELSE cache.key[k]]
    IN  /\ db' = f
        /\ cache' = [id |-> WarmedId, key |-> WarmedKey]
        /\ refDb' = Flushed(refDb)
        /\ lookup' = NoLookup
        /\ UNCHANGED <<ret, refRet, notCache>>

\* the unit of work deletes a row: db.delete(obj)
db_delete(o) ==
    /\ db[o].st = "live"
    /\ db' = [db EXCEPT ![o].st = "deleted"]
    /\ refDb' = IF refDb[o].st = "live" THEN [refDb EXCEPT ![o].st = "deleted"] ELSE refDb
    /\ lookup' = NoLookup
    /\ UNCHANGED <<cache, ret, refRet, notCache>>

\* db.flush()
db_flush ==
    /\ db' = Flushed(db)
    /\ refDb' = Flushed(refDb)
    /\ lookup' = NoLookup
    /\ UNCHANGED <<cache, ret, refRet, notCache>>

\* db.commit()
db_commit ==
    /\ db' = Committed(db)
    /\ refDb' = Committed(refDb)
    /\ lookup' = NoLookup
    /\ UNCHANGED <<cache, ret, refRet, notCache>>

\* the unit of work changes the attributes the cache key of a live row is
\* made of; no two live rows share a key
db_update(o, k) ==
    /\ db[o].st = "live"
    /\ k # db[o].key
    /\ LiveWithKey(db, k) = {}
    /\ db' = [db EXCEPT ![o].key = k]
    /\ lookup' = NoLookup
    /\ UNCHANGED <<cache, ret, refDb, refRet, notCache>>

CacheNext ==
    \/ \E i \in Objs : by_id(i)
    \/ \E k \in Keys, kind \in {"get_one", "get_one_or_create"} : by_cache_key(k, kind)
    \/ \E o \in Objs : cache_insert(o)
    \/ \E o \in Objs : cache_remove(o)
    \/ cache_warm
    \/ \E o \in Objs : db_delete(o)
    \/ db_flush
    \/ db_commit

\* _cache_lookup(db, cache, cache_name, cache_key, cache_miss_hook), as by_id
\* and by_cache_key call it
cache_lookup(name, x, h) ==
    LET r == CacheLookup(db, cache, name, x, h, MaxRetries)
    IN  /\ HookCanRun(h, db)
        /\ r.returned
        /\ db' = r.db
        /\ cache' = r.cache
        /\ lookup' = IF name = "id"
                     THEN Counted("id", x, "", cache.id[x], Cardinality(Rows(db)), r)
                     ELSE Counted("key", None, x, cache.key[x], Cardinality(Rows(db)), r)
        /\ UNCHANGED <<ret, refDb, refRet, notCache>>

\* the cache in a unit of work that also changes the rows it has cached;
\* _cache_insert and _cache_remove run as cache_warm and _cache_lookup call them
UpdateNext ==
    \/ \E i \in Objs : cache_lookup("id", i, [kind |-> "get_one_id", arg |-> i])
    \/ \E k \in Keys, kind \in {"get_one", "get_one_or_create"} :
          cache_lookup("key", k, [kind |-> kind, arg |-> k])
    \/ \E o \in Objs, k \in Keys : db_update(o, k)
    \/ cache_warm
    \/ \E o \in Objs : db_delete(o)
    \/ db_flush
    \/ db_commit


(***************************************************************************)
(* OPDS2Importer.extract_feed_data                                         *)
(*                                                                         *)
(* An Identifier has a type and a value (Identifier.identifier).  A        *)
(* publication of the parsed feed is what the loop reads of it: the        *)
(* Identifier _extract_identifier resolves it to (NoIdent when it resolves *)
(* to None) and whether _extract_publication_metadata raises on it, as it  *)
(* does for instance at line 648 when the feed has no self link.           *)
(***************************************************************************)
Types == {"ISBN", "Gutenberg ID"}
Values == {"1", "2"}
NoIdent == [type |-> "", value |-> ""]
Identifiers == [type : Types, value : Values]

\* IdentifierType: the name of the enumeration member whose value is t
EnumName(t) == IF t = "Gutenberg ID" THEN "GUTENBERG_ID" ELSE t

\* the lists a caller passes to set_ignored_identifier_types: type names
\* as strings, or members of IdentifierType
IgnoreLists == {[kind : {k}, type : ts] : k \in {"str", "enum"}, ts \in SUBSET Types}

\* set_ignored_identifier_types: the strings that are stored
StoredIgnoredTypes(value) ==
    {IF item.kind = "str" THEN item.type ELSE EnumName(item.type) : item \in value}

NoEntry == [ident |-> NoIdent, pub |-> 0]

\* _is_identifier_allowed with every type allowed: the ignore list is not read
IsIdentifierAllowed_all(identifier, ignoredTypes) == TRUE
\* _is_identifier_allowed
IsIdentifierAllowed(identifier, ignoredTypes) == identifier.type \notin ignoredTypes

\* the test of both loops:
\* not recognized_identifier or not self._is_identifier_allowed(...)
Unrecognizable(p, ignoredTypes) ==
    p.ident = NoIdent \/ ~IsIdentifierAllowed(p.ident, ignoredTypes)

\* "identifier not in failures": an Identifier object is compared with the
\* keys of the dictionary, which are strings; the two are never equal
IdentifierInFailures(identifier, f) == \E k \in {v \in Values : f[v] # <<>>} : FALSE

\* _record_coverage_failure; a key of failures that is present holds a
\* non-empty list, <<>> stands for an absent key
RecordCoverageFailure(f, identifier, node) ==
    LET started == IF ~IdentifierInFailures(identifier, f)
                   THEN [f EXCEPT ![identifier.value] = <<>>] ELSE f
    IN  [started EXCEPT ![identifier.value] = Append(@, [ident |-> identifier, node |-> node])]

FeedIdle ==
    /\ ignored = {}
    /\ fpc = "config"
    /\ npubs = 0
    /\ pubs = <<>>
    /\ metadata = [v \in Values |-> NoEntry]
    /\ failures = [v \in Values |-> <<>>]
    /\ skipped = {}
    /\ reported = [n \in 0..MaxPubs |-> 0]
    /\ raisedBy = "none"

\* IgnoredIdentifierConfiguration.set_ignored_identifier_types(value)
set_ignored_identifier_types(value) ==
    /\ fpc = "config"
    /\ ignored' = StoredIgnoredTypes(value)
    /\ UNCHANGED <<fpc, npubs, pubs, metadata, failures, skipped, reported, raisedBy>>
    /\ UNCHANGED notFeed

\* line 925: the parser returns the tree of a page of n publications
parse_manifest(n) ==
    /\ fpc = "config"
    /\ fpc' = "run"
    /\ npubs' = n
    /\ UNCHANGED <<ignored, pubs, metadata, failures, skipped, reported, raisedBy>>
    /\ UNCHANGED notFeed

\* line 925: the parser raises (RWPMManifestParser.parse_manifest re-raises)
parse_raises ==
    /\ fpc = "config"
    /\ fpc' = "raised"
    /\ raisedBy' = "parse"
    /\ UNCHANGED <<ignored, npubs, pubs, metadata, failures, skipped, reported>>
    /\ UNCHANGED notFeed

InFirstLoop == fpc = "run" /\ Len(pubs) < npubs

\* lines 931-937: the publication is logged and passed over
skip_publication(p) ==
    /\ InFirstLoop
    /\ Unrecognizable(p, ignored)
    /\ ~p.raises
    /\ pubs' = Append(pubs, p)
    /\ skipped' = skipped \cup {Len(pubs) + 1}
    /\ UNCHANGED <<ignored, fpc, npubs, metadata, failures, reported, raisedBy>>
    /\ UNCHANGED notFeed

\* lines 939-945: the Metadata is stored under primary_identifier.identifier
extract_publication(p) ==
    /\ InFirstLoop
    /\ ~Unrecognizable(p, ignored)
    /\ ~p.raises
    /\ pubs' = Append(pubs, p)
    /\ metadata' = [metadata EXCEPT ![p.ident.value] = [ident |-> p.ident, pub |-> Len(pubs) + 1]]
    /\ UNCHANGED <<ignored, fpc, npubs, failures, skipped, reported, raisedBy>>
    /\ UNCHANGED notFeed

\* lines 939-941: _extract_publication_metadata raises; nothing catches it
extract_raises(p) ==
    /\ InFirstLoop
    /\ ~Unrecognizable(p, ignored)
    /\ p.raises
    /\ pubs' = Append(pubs, p)
    /\ fpc' = "raised"
    /\ raisedBy' = "extract"
    /\ UNCHANGED <<ignored, npubs, metadata, failures, skipped, reported>>
    /\ UNCHANGED notFeed

InSecondLoop ==
    /\ fpc = "run"
    /\ Len(pubs) = npubs
    /\ reported[0] + (IF npubs = 0 THEN 0 ELSE
                      LET RECURSIVE Sum(_) Sum(n) == IF n = 0 THEN 0 ELSE reported[n] + Sum(n - 1)
                      IN Sum(npubs)) < MaxErrors

\* lines 949-966: one error of parser_result.errors; node is the publication
\* NodeFinder finds above error.node, 0 when it finds none
handle_error(node) ==
    /\ InSecondLoop
    /\ reported' = [reported EXCEPT ![node] = @ + 1]
    /\ IF node # 0 /\ ~Unrecognizable(pubs[node], ignored)
       THEN failures' = RecordCoverageFailure(failures, pubs[node].ident, node)
       ELSE failures' = failures
    /\ UNCHANGED <<ignored, fpc, npubs, pubs, metadata, skipped, raisedBy>>
    /\ UNCHANGED notFeed

\* line 968
return_feed_data ==
    /\ fpc = "run"
    /\ Len(pubs) = npubs
    /\ fpc' = "returned"
    /\ UNCHANGED <<ignored, npubs, pubs, metadata, failures, skipped, reported, raisedBy>>
    /\ UNCHANGED notFeed

Publications == [ident : Identifiers \cup {NoIdent}, raises : BOOLEAN]

FeedNext ==
    \/ \E value \in IgnoreLists : set_ignored_identifier_types(value)
    \/ \E n \in 0..MaxPubs : parse_manifest(n)
    \/ parse_raises
    \/ \E p \in Publications : skip_publication(p)
    \/ \E p \in Publications : extract_publication(p)
    \/ \E p \in Publications : extract_raises(p)
    \/ \E node \in 0..npubs : handle_error(node)
    \/ return_feed_data

(***************************************************************************)
(* S3Uploader.mirror_batch                                                 *)
(*                                                                         *)
(* A URL is its network location and the segments of its path.  A          *)
(* representation carries url, mirror_url, mirrored_at and                 *)
(* mirror_exception; times are "earlier" (a previous run) and "now".       *)
(***************************************************************************)
S3_HOSTNAME == "s3.amazonaws.com"
NoUrl == [netloc |-> "", path |-> <<>>]
NoTime == "None"
NoException == [code |-> 0, content |-> ""]
EarlierException == [code |-> 500, content |-> "earlier"]
NoResp == [req |-> 0, code |-> 0, content |-> ""]

\* the URLs of the model: two spellings of bucket "b", file "f", and file "g"
SourceUrls == {[netloc |-> S3_HOSTNAME, path |-> <<"b", "f">>],
               [netloc |-> S3_HOSTNAME, path |-> <<"b", "g">>]}
MirrorUrls == {NoUrl, [netloc |-> "b", path |-> <<"f">>]}

\* bucket_and_filename
BucketAndFilename(u) ==
    IF u.netloc = S3_HOSTNAME
    THEN [bucket |-> Head(u.path), filename |-> Tail(u.path)]
    ELSE [bucket |-> u.netloc, filename |-> u.path]

\* S3Uploader.url(bucket, path): S3_BASE + bucket + "/" + path
S3Url(bucket, filename) == [netloc |-> S3_HOSTNAME, path |-> <<bucket>> \o filename]

\* lines 145-151: the mirror URL the loop settles on, and its response URL
MirrorUrlOf(rep) == IF rep.mirror_url = NoUrl THEN rep.url ELSE rep.mirror_url
ResponseUrlOf(rep) ==
    LET bf == BucketAndFilename(MirrorUrlOf(rep)) IN S3Url(bf.bucket, bf.filename)

\* the two entries of content_server_mini.opds, in feed order
FeedOrder == <<"10441", "10557">>

\* the mirror URL the importer gives the open-access book of publication p
ContentUrl(p) == [netloc |-> S3_HOSTNAME, path |-> <<"test.content.bucket", FeedOrder[p]>>]

ResponseUrls == {S3Url(BucketAndFilename(u).bucket, BucketAndFilename(u).filename) :
                     u \in SourceUrls \cup (MirrorUrls \ {NoUrl})
                           \cup {ContentUrl(p) : p \in 1..Len(FeedOrder)}}

\* the status codes S3 answers with in the model
StatusCodes == {200, 204, 404}
\* line 168
HTTP_OK == 200

\* Representation.set_as_mirrored
SetAsMirrored(rep) == [rep EXCEPT !.mirrored_at = "now", !.mirror_exception = NoException]

\* the test of line 168 looking for 201 Created
IsSuccess_created(code) == code = 201
\* line 168: response.status_code == 200
IsSuccess(code) == code = HTTP_OK

\* lines 178-181; the string "Status code %d: %s" is kept as its two arguments
MirrorFailed(rep, response) ==
    [rep EXCEPT !.mirrored_at = NoTime,
                !.mirror_exception = [code |-> response.code, content |-> response.content]]

\* process_response, applied to the representation the response URL maps to
ProcessResponse(rep, response) ==
    IF IsSuccess(response.code) THEN SetAsMirrored(rep) ELSE MirrorFailed(rep, response)

Representations ==
    [url : SourceUrls, mirror_url : MirrorUrls,
     mirrored_at : {NoTime, "earlier"}, mirror_exception : {NoException, EarlierException}]

\* a representation has been mirrored, has failed, or has never been tried
Batches ==
    UNION {[1..n -> {r \in Representations :
                        r.mirrored_at = NoTime \/ r.mirror_exception = NoException}] :
           n \in 0..MaxBatch}

MirrorIdle ==
    /\ mpc = "idle"
    /\ reps = <<>>
    /\ entry = <<>>
    /\ filehandles = <<>>
    /\ byUrl = [u \in ResponseUrls |-> 0]
    /\ done = {}
    /\ lastResp = NoResp
    /\ logged = <<>>
    /\ exc = ""

\* lines 139-143: the call mirror_batch(representations); with nothing to
\* upload the first loop is over at once
MirrorBatchCall(batch) ==
    /\ mpc = "idle"
    /\ mpc' = IF Len(batch) = 0 THEN "resolve" ELSE "upload"
    /\ reps' = batch
    /\ entry' = batch
    /\ UNCHANGED <<filehandles, byUrl, done, lastResp, logged, exc>>

\* mirror_batch called on its own
mirror_batch(batch) ==
    /\ MirrorBatchCall(batch)
    /\ UNCHANGED notMirror

\* the representation the first loop is at
Current == Len(filehandles) + 1

\* lines 145-153 of one iteration: mirror_url is filled in and the
\* representation is registered under its response URL
Registered ==
    /\ reps' = [reps EXCEPT ![Current].mirror_url = MirrorUrlOf(reps[Current])]
    /\ byUrl' = [byUrl EXCEPT ![ResponseUrlOf(reps[Current])] = Current]

\* lines 144-163: one iteration of the first loop
issue_upload ==
    /\ mpc = "upload"
    /\ Current <= Len(reps)
    /\ Registered
    /\ filehandles' = Append(filehandles, "open")
    /\ mpc' = IF Current = Len(reps) THEN "resolve" ELSE "upload"
    /\ UNCHANGED <<entry, done, lastResp, logged, exc>>
    /\ UNCHANGED notMirror

\* line 155: representation.external_content() raises; no handle was opened
external_content_raises ==
    /\ mpc = "upload"
    /\ Current <= Len(reps)
    /\ Registered
    /\ mpc' = "raised"
    /\ exc' = "IOError"
    /\ UNCHANGED <<entry, filehandles, done, lastResp, logged>>
    /\ UNCHANGED notMirror

\* line 159: pool.upload raises; the handle is open and in filehandles
upload_raises ==
    /\ mpc = "upload"
    /\ Current <= Len(reps)
    /\ Registered
    /\ filehandles' = Append(filehandles, "open")
    /\ mpc' = "raised"
    /\ exc' = "IOError"
    /\ UNCHANGED <<entry, done, lastResp, logged>>
    /\ UNCHANGED notMirror

\* lines 184-185: as_completed yields the response of request r, whose URL
\* is the URL the upload of representation r went to
process_response(r, code) ==
    LET response == [req |-> r, code |-> code, content |-> "body"]
        target == byUrl[ResponseUrlOf(reps[r])]
    IN  /\ mpc = "resolve"
        /\ r \in 1..Len(reps) \ done
        /\ done' = done \cup {r}
        /\ reps' = [reps EXCEPT ![target] = ProcessResponse(reps[target], response)]
        /\ lastResp' = response
        /\ UNCHANGED <<mpc, entry, filehandles, byUrl, logged, exc>>
        /\ UNCHANGED notMirror

\* the exceptions of lines 186 and 190
Caught == {"ConnectionError", "HTTPError"}
\* what as_completed can raise: the two above, and a read timeout, which
\* is neither (requests.exceptions.ReadTimeout)
TransportErrors == Caught \cup {"ReadTimeout"}

\* lines 183-194: as_completed raises while responses are outstanding; the
\* two except clauses log and fall through to line 196, anything else leaves
\* mirror_batch
transport_error(kind) ==
    /\ mpc = "resolve"
    /\ done # 1..Len(reps)
    /\ exc' = kind
    /\ IF kind \in Caught
       THEN mpc' = "close" /\ logged' = Append(logged, kind)
       ELSE mpc' = "raised" /\ logged' = logged
    /\ UNCHANGED <<reps, entry, filehandles, byUrl, done, lastResp>>
    /\ UNCHANGED notMirror

\* the second loop ends: every response has been processed
all_completed ==
    /\ mpc = "resolve"
    /\ done = 1..Len(reps)
    /\ mpc' = "close"
    /\ UNCHANGED <<reps, entry, filehandles, byUrl, done, lastResp, logged, exc>>
    /\ UNCHANGED notMirror

\* lines 196-198
close_filehandles ==
    /\ mpc = "close"
    /\ filehandles' = [i \in 1..Len(filehandles) |-> "closed"]
    /\ mpc' = "returned"
    /\ UNCHANGED <<reps, entry, byUrl, done, lastResp, logged, exc>>
    /\ UNCHANGED notMirror

\* the steps inside mirror_batch
MirrorSteps ==
    \/ issue_upload
    \/ external_content_raises
    \/ upload_raises
    \/ \E r \in 1..Len(reps), code \in StatusCodes : process_response(r, code)
    \/ \E kind \in TransportErrors : transport_error(kind)
    \/ all_completed
    \/ close_filehandles

MirrorNext ==
    \/ \E batch \in Batches : mirror_batch(batch)
    \/ MirrorSteps

(***************************************************************************)
(* OPDSImporter.import_from_feed, run after run over one catalog.          *)
(*                                                                         *)
(* The importer itself is not among the sources; its cutoff decision and   *)
(* its conditional fetch follow the specification and test_opds_import.py. *)
(* The uploads go through S3Uploader.mirror_one or DummyS3Uploader.        *)
(* The publications of a page are those extract_feed_data returned a       *)
(* Metadata for; each has one open-access book to mirror.                  *)
(***************************************************************************)
Feed == 1..Len(FeedOrder)
Times == 1..MaxTime
Uploaders == {"S3Uploader", "DummyS3Uploader", "DummyS3Uploader(fail)"}

\* the representation of publication p's book before its first import
NewRepresentation(p) ==
    [url |-> [netloc |-> "www.gutenberg.org", path |-> <<"ebooks", FeedOrder[p]>>],
     mirror_url |-> ContentUrl(p),
     mirrored_at |-> NoTime, mirror_exception |-> NoException]

\* the cutoff policy with the boundary included
ShouldImport_inclusive(c, known, ts) == c = None \/ ~known \/ ts >= c
\* the cutoff ignored
ShouldImport_always(c, known, ts) == TRUE
\* the cutoff policy: no cutoff, or a new publication, or modified after it
ShouldImport(c, known, ts) == c = None \/ ~known \/ ts > c

\* time passes between runs: what was mirrored "now" was mirrored "earlier"
Aged(rep) == IF rep.mirrored_at = "now" THEN [rep EXCEPT !.mirrored_at = "earlier"] ELSE rep

\* lines 222-229 with self.fail unset and set
DummyMirrorBatch(rep, fail) ==
    IF fail
    THEN [rep EXCEPT !.mirror_exception = [code |-> 0, content |-> "Exception"],
                     !.mirrored_at = NoTime]
    ELSE SetAsMirrored([rep EXCEPT !.mirror_url = MirrorUrlOf(rep)])

\* nothing handled yet in this run
NoLast == [pub |-> 0, was |-> NoTime, fetched |-> "", uploads |-> 0, answered |-> 0]

\* the publication at pos is being handled; was: its mirrored_at until now
Handling(result) ==
    [pub |-> pos, was |-> catalog[pos].rep.mirrored_at, fetched |-> result,
     uploads |-> 0, answered |-> 0]

\* the Metadata extract_feed_data makes of a feed, reduced to what the sync
\* looks at
ExtractedMetadata(feed) ==
    [p \in DOMAIN feed |-> [identifier |-> FeedOrder[p], data_source_last_updated |-> feed[p]]]

\* the first run, or a run after one that raised
NothingRepeated == [feed |-> FALSE, cutoff |-> FALSE, metadata |-> FALSE]

SyncIdle ==
    /\ spc = "idle"
    /\ updated = [p \in Feed |-> 1]
    /\ cutoff = None
    /\ uploader = "S3Uploader"
    /\ pos = 1
    /\ catalog = [p \in Feed |-> [known |-> FALSE, rep |-> NewRepresentation(p)]]
    /\ before = {}
    /\ imported = {}
    /\ last = NoLast
    /\ repeated = NothingRepeated
    /\ nruns = 0

Resting == spc \in {"idle", "done", "raised"}

\* import_from_feed(feed, cutoff_date=c) on an importer with mirror=m; the
\* feed is what the source serves now: since the run before it has
\* republished some publications with a later timestamp, or none
import_from_feed(feed, c, m) ==
    /\ Resting
    /\ nruns < MaxRuns
    /\ \A p \in Feed : feed[p] >= updated[p]
    /\ nruns' = nruns + 1
    /\ spc' = "page"
    /\ updated' = feed
    /\ cutoff' = c
    /\ uploader' = m
    /\ pos' = 1
    /\ catalog' = [p \in Feed |-> [catalog[p] EXCEPT !.rep = Aged(@)]]
    /\ before' = {p \in Feed : catalog[p].known}
    /\ imported' = {}
    /\ last' = NoLast
    /\ repeated' = IF spc # "done" THEN NothingRepeated
                   ELSE [feed |-> feed = updated, cutoff |-> c = cutoff,
                         metadata |-> ExtractedMetadata(feed) = ExtractedMetadata(updated)]
    /\ UNCHANGED <<notSync, mirrorVars>>

AtPublication == spc = "page" /\ pos \in Feed

\* the publication is known and was not modified after the cutoff
cutoff_skip ==
    /\ AtPublication
    /\ ~ShouldImport(cutoff, catalog[pos].known, updated[pos])
    /\ last' = Handling("")
    /\ pos' = pos + 1
    /\ UNCHANGED <<spc, updated, cutoff, uploader, catalog, before, imported,
                   repeated, nruns>>
    /\ UNCHANGED <<notSync, mirrorVars>>

\* what importing the publication at pos records, whatever the fetch gives
Imports ==
    /\ AtPublication
    /\ ShouldImport(cutoff, catalog[pos].known, updated[pos])
    /\ imported' = imported \cup {pos}
    /\ UNCHANGED <<updated, cutoff, uploader, before, repeated, nruns>>

\* the publication is imported; the conditional fetch of its book, fetched
\* in an earlier run, answers 304: no upload
import_not_modified ==
    /\ Imports
    /\ catalog[pos].known
    /\ last' = Handling("304")
    /\ pos' = pos + 1
    /\ UNCHANGED <<spc, catalog>>
    /\ UNCHANGED <<notSync, mirrorVars>>

\* the publication is imported and the fetch gives content:
\* s3.py line 137, mirror_one calls mirror_batch([representation])
mirror_one ==
    /\ Imports
    /\ uploader = "S3Uploader"
    /\ last' = Handling("200")
    /\ catalog' = [catalog EXCEPT ![pos].known = TRUE]
    /\ MirrorBatchCall(<<catalog[pos].rep>>)
    /\ spc' = "mirror"
    /\ UNCHANGED pos
    /\ UNCHANGED notSync

\* the same with a DummyS3Uploader: lines 219-229
dummy_mirror_one ==
    /\ Imports
    /\ uploader # "S3Uploader"
    /\ last' = [Handling("200") EXCEPT !.uploads = 1]
    /\ catalog' = [catalog EXCEPT ![pos] =
          [known |-> TRUE,
           rep |-> DummyMirrorBatch(catalog[pos].rep, uploader = "DummyS3Uploader(fail)")]]
    /\ pos' = pos + 1
    /\ UNCHANGED spc
    /\ UNCHANGED <<notSync, mirrorVars>>

\* mirror_batch is left: its local state is gone
MirrorLeft ==
    /\ mpc' = "idle"
    /\ reps' = <<>>
    /\ entry' = <<>>
    /\ filehandles' = <<>>
    /\ byUrl' = [u \in ResponseUrls |-> 0]
    /\ done' = {}
    /\ lastResp' = NoResp
    /\ logged' = <<>>
    /\ exc' = ""

\* mirror_one returns: the representation is as mirror_batch left it
mirror_returned ==
    /\ spc = "mirror"
    /\ mpc = "returned"
    /\ catalog' = [catalog EXCEPT ![pos].rep = reps[1]]
    /\ last' = [last EXCEPT !.uploads = Len(filehandles), !.answered = lastResp.code]
    /\ pos' = pos + 1
    /\ spc' = "page"
    /\ MirrorLeft
    /\ UNCHANGED <<updated, cutoff, uploader, before, imported, repeated, nruns>>
    /\ UNCHANGED notSync

\* mirror_one raises and the run ends with the exception
mirror_raised ==
    /\ spc = "mirror"
    /\ mpc = "raised"
    /\ catalog' = [catalog EXCEPT ![pos].rep = reps[1]]
    /\ spc' = "raised"
    /\ MirrorLeft
    /\ UNCHANGED <<updated, cutoff, uploader, pos, before, imported, last, repeated, nruns>>
    /\ UNCHANGED notSync

\* the page is exhausted
finish_run ==
    /\ spc = "page"
    /\ pos = Len(FeedOrder) + 1
    /\ spc' = "done"
    /\ UNCHANGED <<updated, cutoff, uploader, pos, catalog, before, imported, last,
                   repeated, nruns>>
    /\ UNCHANGED <<notSync, mirrorVars>>

\* the steps of mirror_batch run only inside mirror_one
SyncNext ==
    \/ \E feed \in [Feed -> Times], c \in {None} \cup Times, m \in Uploaders :
          import_from_feed(feed, c, m)
    \/ cutoff_skip
    \/ import_not_modified
    \/ mirror_one
    \/ dummy_mirror_one
    \/ (spc = "mirror" /\ MirrorSteps)
    \/ mirror_returned
    \/ mirror_raised
    \/ finish_run

(***************************************************************************)
(* OPDSImporter.consolidate_links                                          *)
(*                                                                         *)
(* The method is not among the sources; it follows section 4.2 of the      *)
(* specification and test_consolidate_links.  A link is known by its       *)
(* position in the input; thumbnail is the position of the link attached   *)
(* as its thumbnail, None when there is none.                              *)
(***************************************************************************)
IMAGE == "image"
THUMBNAIL_IMAGE == "thumbnail"
OPEN_ACCESS_DOWNLOAD == "open-access"
Rels == {IMAGE, THUMBNAIL_IMAGE, OPEN_ACCESS_DOWNLOAD}

LinkLists == UNION {[1..n -> Rels] : n \in 0..MaxLinks}

\* LinkData(rel=ls[i]) as passed in
LinkData(ls, i) == [id |-> i, rel |-> ls[i], thumbnail |-> None]

\* a thumbnail never looks ahead
PairsWithNext_never(ls, i) == FALSE
\* the thumbnail at i is directly followed by an image
PairsWithNext(ls, i) == i < Len(ls) /\ ls[i + 1] = IMAGE

\* a thumbnail never looks back
PairsWithPrevious_never(ls, i, out) == FALSE
\* the thumbnail at i directly follows an image that has no thumbnail yet
PairsWithPrevious(ls, i, out) ==
    /\ i > 1
    /\ ls[i - 1] = IMAGE
    /\ out # <<>>
    /\ out[Len(out)].id = i - 1
    /\ out[Len(out)].thumbnail = None

\* an unpaired thumbnail stays in the list
Unpaired_kept(out, link) == Append(out, link)
\* an unpaired thumbnail is dropped silently
Unpaired(out, link) == out

\* one scan of the input from position i; out is the list built so far
RECURSIVE ConsolidateFrom(_, _, _)
ConsolidateFrom(ls, i, out) ==
    IF i > Len(ls) THEN out
    ELSE IF ls[i] # THUMBNAIL_IMAGE
         THEN ConsolidateFrom(ls, i + 1, Append(out, LinkData(ls, i)))
    ELSE IF PairsWithNext(ls, i)
         THEN ConsolidateFrom(ls, i + 2,
                  Append(out, [LinkData(ls, i + 1) EXCEPT !.thumbnail = i]))
    ELSE IF PairsWithPrevious(ls, i, out)
         THEN ConsolidateFrom(ls, i + 1, [out EXCEPT ![Len(out)].thumbnail = i])
    ELSE ConsolidateFrom(ls, i + 1, Unpaired(out, LinkData(ls, i)))

ConsolidateLinks(ls) == ConsolidateFrom(ls, 1, <<>>)

LinksIdle ==
    /\ links = <<>>
    /\ consolidated = <<>>

\* OPDSImporter.consolidate_links(links)
consolidate_links(ls) ==
    /\ links' = ls
    /\ consolidated' = ConsolidateLinks(ls)
    /\ UNCHANGED notLinks

LinksNext == \E ls \in LinkLists : consolidate_links(ls)

(***************************************************************************)
(* One sync run over the pages of a feed.                                  *)
(*                                                                         *)
(* A page is fetched from a URL 1..MaxPages.  What the run reads of it:    *)
(* whether parse_manifest yields a root, its links (relation and href) and *)
(* whether it has publications.  The run keeps the URLs it has fetched and *)
(* the URLs it still has to fetch; a page passes through the states        *)
(* FETCH_PAGE, FILTER_IDENTIFIERS, EXTRACT, PERSIST, MIRROR and            *)
(* RECORD_RESULT, and the run ends in DONE.                                *)
(***************************************************************************)
Urls == 1..MaxPages
NEXT_LINK_RELATION == "next"
LinkRelations == {NEXT_LINK_RELATION, "self"}
PageLinks == [rel : LinkRelations, href : Urls]
Pages ==
    [root : BOOLEAN,
     links : UNION {[1..n -> PageLinks] : n \in 0..MaxPageLinks},
     publications : BOOLEAN]

\* extract_next_links: the hrefs of the links of relation "next", none when
\* the parser yields no root
ExtractNextLinks(feed) ==
    IF ~feed.root THEN {}
    ELSE {feed.links[n].href : n \in {j \in DOMAIN feed.links : feed.links[j].rel = NEXT_LINK_RELATION}}

PageStates ==
    <<"FETCH_PAGE", "FILTER_IDENTIFIERS", "EXTRACT", "PERSIST", "MIRROR", "RECORD_RESULT">>

\* a run that follows a next link whether or not it has fetched the URL
Unvisited_any(link, fetched) == TRUE
\* the guard on pagination: a URL is fetched once in a run
Unvisited(link, fetched) == link \notin fetched

\* a run that leaves MIRROR while uploads are still awaited
Awaited_none(c) == TRUE
\* the uploads of the page are awaited together
Awaited(c) == \A n \in DOMAIN c : c[n] # "pending"

RunIdle ==
    /\ rpc = "idle"
    /\ queue = {}
    /\ seen = {}
    /\ nexts = {}
    /\ nonempty = FALSE
    /\ cands = <<>>
    /\ trail = <<>>
    /\ revisit = FALSE

\* the run starts at the URL of the feed
start_run(u) ==
    /\ rpc = "idle"
    /\ rpc' = "FETCH_PAGE"
    /\ queue' = {u}
    /\ UNCHANGED <<seen, nexts, nonempty, cands, trail, revisit, notRun>>

\* FETCH_PAGE: one of the URLs still to fetch is fetched and parsed
fetch_page(u, feed) ==
    /\ rpc = "FETCH_PAGE"
    /\ u \in queue
    /\ queue' = queue \ {u}
    /\ seen' = seen \cup {u}
    /\ nexts' = ExtractNextLinks(feed)
    /\ nonempty' = (feed.root /\ feed.publications)
    /\ trail' = <<"FETCH_PAGE">>
    /\ cands' = <<>>
    /\ rpc' = "FILTER_IDENTIFIERS"
    /\ UNCHANGED <<revisit, notRun>>

\* FILTER_IDENTIFIERS
filter_identifiers ==
    /\ rpc = "FILTER_IDENTIFIERS"
    /\ trail' = Append(trail, rpc)
    /\ rpc' = "EXTRACT"
    /\ UNCHANGED <<queue, seen, nexts, nonempty, cands, revisit, notRun>>

\* EXTRACT: extraction produces the mirror candidates of the page
extract_page(n) ==
    /\ rpc = "EXTRACT"
    /\ nonempty \/ n = 0
    /\ cands' = [c \in 1..n |-> "pending"]
    /\ trail' = Append(trail, rpc)
    /\ rpc' = "PERSIST"
    /\ UNCHANGED <<queue, seen, nexts, nonempty, revisit, notRun>>

\* PERSIST
persist_page ==
    /\ rpc = "PERSIST"
    /\ trail' = Append(trail, rpc)
    /\ rpc' = "MIRROR"
    /\ UNCHANGED <<queue, seen, nexts, nonempty, cands, revisit, notRun>>

\* MIRROR: the response to one upload arrives, in any order
upload_completes(c, outcome) ==
    /\ rpc = "MIRROR"
    /\ c \in DOMAIN cands
    /\ cands[c] = "pending"
    /\ cands' = [cands EXCEPT ![c] = outcome]
    /\ UNCHANGED <<rpc, queue, seen, nexts, nonempty, trail, revisit, notRun>>

\* MIRROR: a transport error ends the batch, nothing more is recorded
batch_fails ==
    /\ rpc = "MIRROR"
    /\ ~Awaited(cands)
    /\ cands' = [c \in DOMAIN cands |-> IF cands[c] = "pending" THEN "abandoned" ELSE cands[c]]
    /\ UNCHANGED <<rpc, queue, seen, nexts, nonempty, trail, revisit, notRun>>

\* MIRROR: mirror_batch returns
mirror_page ==
    /\ rpc = "MIRROR"
    /\ Awaited(cands)
    /\ trail' = Append(trail, rpc)
    /\ rpc' = "RECORD_RESULT"
    /\ UNCHANGED <<queue, seen, nexts, nonempty, cands, revisit, notRun>>

\* the next links the run follows from the current page
Followed == IF nonempty THEN {l \in nexts : Unvisited(l, seen)} ELSE {}

\* RECORD_RESULT, then the next page if there is one to fetch
record_result ==
    /\ rpc = "RECORD_RESULT"
    /\ trail' = Append(trail, rpc)
    /\ queue' = queue \cup Followed
    /\ revisit' = (revisit \/ (nonempty /\ nexts \cap seen # {}))
    /\ nexts' = {}
    /\ nonempty' = FALSE
    /\ rpc' = IF queue' = {} THEN "DONE" ELSE "FETCH_PAGE"
    /\ UNCHANGED <<seen, cands, notRun>>

RunNext ==
    \/ \E u \in Urls : start_run(u)
    \/ \E u \in Urls, feed \in Pages : fetch_page(u, feed)
    \/ filter_identifiers
    \/ \E n \in 0..MaxCandidates : extract_page(n)
    \/ persist_page
    \/ \E c \in 1..MaxCandidates, outcome \in {"mirrored", "failed"} : upload_completes(c, outcome)
    \/ batch_fails
    \/ mirror_page
    \/ record_result


(***************************************************************************)
(* OPDS2Importer: formats and medium of a publication                      *)
(*                                                                         *)
(* An indirect-acquisition entry is the chain of types from the entry      *)
(* down: chain[1] is the entry's own type, chain[n + 1] the type of the    *)
(* first child of the object at depth n.  A link has a media type ("" when *)
(* it declares none), may carry a circulation-allowed relation, and has    *)
(* properties or none.                                                     *)
(***************************************************************************)
ADOBE_DRM == "application/vnd.adobe.adept+xml"
NO_DRM == "no DRM"
KNOWN_DRM_TYPES == {ADOBE_DRM}
EPUB_MEDIA_TYPE == "application/epub+zip"
AUDIOBOOK_MEDIA_TYPE == "application/audiobook+json"
HTML_MEDIA_TYPE == "text/html"
BOOK_MEDIA_TYPES == {EPUB_MEDIA_TYPE}
AUDIOBOOK_MEDIA_TYPES == {AUDIOBOOK_MEDIA_TYPE}
AVAILABLE == "available"

BOOK_MEDIUM == "Book"
AUDIO_MEDIUM == "Audio"
NoMedium == "None"

Chains == UNION {[1..n -> {ADOBE_DRM, AUDIOBOOK_MEDIA_TYPE}] : n \in 1..MaxDepth}
NoProperties == [declared |-> FALSE, availability |-> "", indirect_acquisition |-> <<>>]
Properties ==
    [declared : {TRUE},
     availability : {"", AVAILABLE, "unavailable"},
     indirect_acquisition : UNION {[1..n -> Chains] : n \in 0..MaxEntries}]
AcquisitionLinks ==
    [acquisition : BOOLEAN,
     type : {"", EPUB_MEDIA_TYPE, HTML_MEDIA_TYPE},
     properties : {NoProperties} \cup Properties]

\* the while loop of lines 491-494, nested being the object at depth n: it
\* exits when that object has no child; otherwise nested becomes the first
\* child of the entry, the object at depth 2, and when it is that object
\* already the loop runs on without changing anything
RECURSIVE WhileChild(_, _)
WhileChild(chain, n) ==
    IF n = Len(chain) THEN [exits |-> TRUE, type |-> chain[n]]
    ELSE IF n = 2 THEN [exits |-> FALSE, type |-> ""]
    ELSE WhileChild(chain, 2)

DrmScheme(chain) == IF chain[1] \in KNOWN_DRM_TYPES THEN chain[1] ELSE NO_DRM

\* the for loop of lines 488-504 from entry n on
RECURSIVE IndirectFormats(_, _, _)
IndirectFormats(entries, n, out) ==
    IF n > Len(entries) THEN [returned |-> TRUE, list |-> out]
    ELSE LET nested == WhileChild(entries[n], 1) IN
         IF ~nested.exits THEN [returned |-> FALSE, list |-> out]
         ELSE IndirectFormats(entries, n + 1,
                              Append(out, <<nested.type, DrmScheme(entries[n])>>))

\* _extract_media_types_and_drm_scheme_from_link
ExtractMediaTypesAndDrmScheme(link) ==
    IF link.properties.declared
    THEN IF link.properties.availability \in {"", AVAILABLE}
         THEN IndirectFormats(link.properties.indirect_acquisition, 1, <<>>)
         ELSE [returned |-> TRUE, list |-> <<>>]
    ELSE IF link.type \in BOOK_MEDIA_TYPES \cup AUDIOBOOK_MEDIA_TYPES
         THEN [returned |-> TRUE, list |-> << <<link.type, NO_DRM>> >>]
         ELSE [returned |-> TRUE, list |-> <<>>]

\* Edition.medium_from_media_type
MediumFromMediaType(t) ==
    IF t \in BOOK_MEDIA_TYPES THEN BOOK_MEDIUM
    ELSE IF t \in AUDIOBOOK_MEDIA_TYPES THEN AUDIO_MEDIUM
    ELSE NoMedium

\* Edition.additional_type_to_medium
EBOOK_TYPE == "http://schema.org/EBook"
AUDIOBOOK_TYPE == "http://schema.org/Audiobook"
COURSE_TYPE == "http://schema.org/Course"
AdditionalTypes == {EBOOK_TYPE, AUDIOBOOK_TYPE}
AdditionalTypeToMedium(t) == IF t = EBOOK_TYPE THEN BOOK_MEDIUM ELSE AUDIO_MEDIUM

\* a link _extract_medium_from_links passes over
PassedOver(link) == link.type = "" \/ ~link.acquisition

\* _extract_medium_from_links from link n on
RECURSIVE ExtractMediumFromLinks(_, _)
ExtractMediumFromLinks(ls, n) ==
    IF n > Len(ls) THEN [returned |-> TRUE, medium |-> NoMedium]
    ELSE IF PassedOver(ls[n]) THEN ExtractMediumFromLinks(ls, n + 1)
    ELSE LET f == ExtractMediaTypesAndDrmScheme(ls[n]) IN
         IF ~f.returned THEN [returned |-> FALSE, medium |-> NoMedium]
         ELSE LET derived == IF f.list = <<>> THEN NoMedium
                             ELSE MediumFromMediaType(f.list[1][1]) IN
              IF derived # NoMedium THEN [returned |-> TRUE, medium |-> derived]
              ELSE ExtractMediumFromLinks(ls, n + 1)

\* _extract_medium(publication, default_medium)
ExtractMedium(p, default_medium) ==
    IF p.type # ""
    THEN IF p.type \in AdditionalTypes THEN AdditionalTypeToMedium(p.type) ELSE default_medium
    ELSE default_medium

\* the links a publication is given here: at most one entry each, since the
\* medium reads the first format of a link only
PublicationLinks ==
    [acquisition : BOOLEAN,
     type : {"", EPUB_MEDIA_TYPE, HTML_MEDIA_TYPE},
     properties : {NoProperties} \cup
                  [declared : {TRUE},
                   availability : {"", AVAILABLE, "unavailable"},
                   indirect_acquisition : {<<>>} \cup {<<c>> : c \in Chains}]]
\* the types a publication declares, "" when it declares none
DeclaredTypes == {"", EBOOK_TYPE, AUDIOBOOK_TYPE, COURSE_TYPE}

NoLink == [acquisition |-> FALSE, type |-> "", properties |-> NoProperties]
NoPublication == [type |-> "", links |-> <<>>]

ExtractIdle ==
    /\ acquisition = NoLink
    /\ formats = [returned |-> FALSE, list |-> <<>>]
    /\ publication = NoPublication
    /\ medium = [returned |-> FALSE, medium |-> NoMedium]

\* a call of _extract_media_types_and_drm_scheme_from_link
extract_formats(link) ==
    /\ acquisition' = link
    /\ formats' = ExtractMediaTypesAndDrmScheme(link)
    /\ UNCHANGED <<publication, medium, notExtract>>

\* lines 598-599 of _extract_publication_metadata: the medium derived from
\* the links is passed to _extract_medium as its default
extract_medium(p) ==
    LET derived == ExtractMediumFromLinks(p.links, 1) IN
    /\ publication' = p
    /\ medium' = IF derived.returned
                 THEN [returned |-> TRUE, medium |-> ExtractMedium(p, derived.medium)]
                 ELSE derived
    /\ UNCHANGED <<acquisition, formats, notExtract>>

\* one call of either, on a link or a publication of the feed
ExtractNext ==
    \/ ExtractIdle /\ \E link \in AcquisitionLinks : extract_formats(link)
    \/ ExtractIdle /\ \E n \in 0..MaxPublicationLinks :
                       \E t \in DeclaredTypes, ls \in [1..n -> PublicationLinks] :
                          extract_medium([type |-> t, links |-> ls])

(***************************************************************************)
(* OPDS2Importer: the image links of a publication                         *)
(*                                                                         *)
(* A raw image link has a width and a height (None when it declares none), *)
(* the list of its relations and its href; the href is different for every *)
(* link of a publication and stands here for the link's declared position. *)
(***************************************************************************)
Dimensions == {None, 1, 2}
RawImages == [width : Dimensions, height : Dimensions, rels : {<<>>, <<THUMBNAIL_IMAGE>>}]
JPEG_MEDIA_TYPE == "image/jpeg"

\* publication.images.links, with the hrefs in
Declared(raw) ==
    [i \in DOMAIN raw |-> [href |-> i, type |-> JPEG_MEDIA_TYPE,
                           width |-> raw[i].width, height |-> raw[i].height,
                           rels |-> raw[i].rels]]

\* RightsStatus.rights_uri_from_string(""), and the rights that make a link
\* open access
UNKNOWN_RIGHTS == "http://librarysimplified.org/terms/rights-status/unknown"
OPEN_ACCESS == {"http://librarysimplified.org/terms/rights-status/public-domain-usa",
                "http://librarysimplified.org/terms/rights-status/generic-open-access"}

\* first_or_default(collection, default)
FirstOrDefault(collection, default) ==
    IF collection = <<>> THEN default ELSE collection[1]

\* _extract_link(link, feed_self_url, default_link_rel): the LinkData
ExtractLink(link, default_link_rel) ==
    [rel |-> FirstOrDefault(link.rels, default_link_rel), href |-> link.href,
     media_type |-> link.type, rights_uri |-> UNKNOWN_RIGHTS]

\* the sort key: (link.width or 0, link.height or 0)
OrZero(x) == IF x = None THEN 0 ELSE x
SortKey(link) == <<OrZero(link.width), OrZero(link.height)>>
KeyLess(a, b) == a[1] < b[1] \/ (a[1] = b[1] /\ a[2] < b[2])

\* sorted(ls, key=...): ascending and stable; ls[n] goes behind every link
\* already placed whose key is not greater
RECURSIVE Sorted(_, _, _)
Sorted(ls, n, out) ==
    IF n > Len(ls) THEN out
    ELSE LET ahead == {j \in DOMAIN out : ~KeyLess(SortKey(ls[n]), SortKey(out[j]))}
             at == Cardinality(ahead)
         IN  Sorted(ls, n + 1,
                    SubSeq(out, 1, at) \o <<ls[n]>> \o SubSeq(out, at + 1, Len(out)))

\* a sort in descending order that keeps equal keys in declared order
Reversed_stable(ls) ==
    LET RECURSIVE Desc(_, _)
        Desc(n, out) ==
            IF n > Len(ls) THEN out
            ELSE LET front == {j \in DOMAIN out : ~KeyLess(SortKey(out[j]), SortKey(ls[n]))}
                     at == Cardinality(front)
                 IN  Desc(n + 1, SubSeq(out, 1, at) \o <<ls[n]>> \o SubSeq(out, at + 1, Len(out)))
    IN  Desc(1, <<>>)
\* list(reversed(sorted(...)))
Reversed(ls) ==
    LET s == Sorted(ls, 1, <<>>) IN [i \in 1..Len(s) |-> s[Len(s) + 1 - i]]

\* _extract_image_links
ExtractImageLinks(ls) ==
    LET sorted_raw_image_links == Reversed(ls) IN
    IF ls = <<>> THEN <<>>
    ELSE (IF Len(sorted_raw_image_links) > 0
          THEN <<ExtractLink(sorted_raw_image_links[1], IMAGE)>> ELSE <<>>)
         \o (IF Len(sorted_raw_image_links) > 1
             THEN <<ExtractLink(sorted_raw_image_links[2], THUMBNAIL_IMAGE)>> ELSE <<>>)

ImagesIdle ==
    /\ images = <<>>
    /\ imageLinks = [returned |-> FALSE, list |-> <<>>]

\* a call of _extract_image_links on a publication with these images
extract_image_links(raw) ==
    /\ images' = Declared(raw)
    /\ imageLinks' = [returned |-> TRUE, list |-> ExtractImageLinks(Declared(raw))]
    /\ UNCHANGED notImages

ImagesNext ==
    ImagesIdle /\ \E n \in 0..MaxImages : \E raw \in [1..n -> RawImages] :
                     extract_image_links(raw)

(***************************************************************************)
(* OPDS2Importer: the links and the formats of a publication               *)
(*                                                                         *)
(* A link of the publication has the list of its relations, a media type,  *)
(* properties or none, and its href, which stands for its position among   *)
(* the publication's links.  The publication may have a description and    *)
(* images.                                                                 *)
(***************************************************************************)
GENERIC_OPDS_ACQUISITION == "http://opds-spec.org/acquisition"
CIRCULATION_ALLOWED == {OPEN_ACCESS_DOWNLOAD, GENERIC_OPDS_ACQUISITION}
DESCRIPTION == "http://schema.org/description"
TEXT_PLAIN == "text/plain"
NoRel == ""

RawLinks ==
    [rels : {<<>>, <<GENERIC_OPDS_ACQUISITION>>, <<OPEN_ACCESS_DOWNLOAD>>,
             <<GENERIC_OPDS_ACQUISITION, OPEN_ACCESS_DOWNLOAD>>},
     type : {EPUB_MEDIA_TYPE, HTML_MEDIA_TYPE},
     properties : {NoProperties} \cup
                  [declared : {TRUE},
                   availability : {"", "unavailable"},
                   indirect_acquisition :
                       {<< <<ADOBE_DRM, AUDIOBOOK_MEDIA_TYPE>> >>,
                        << <<ADOBE_DRM, ADOBE_DRM, AUDIOBOOK_MEDIA_TYPE>> >>}]]

\* publication.links, with the hrefs in
DeclaredLinks(raw) ==
    [i \in DOMAIN raw |-> [href |-> i, rels |-> raw[i].rels, type |-> raw[i].type,
                           properties |-> raw[i].properties]]

\* the image a publication is given here
CoverImage == [width |-> 2, height |-> 2, rels |-> <<>>]

\* _extract_description_link, for a publication that has a description
DescriptionLink ==
    [rel |-> DESCRIPTION, href |-> None, media_type |-> TEXT_PLAIN,
     rights_uri |-> UNKNOWN_RIGHTS]

\* links that start with the image links
ExtractLinks_imagesFirst(p) ==
    ExtractImageLinks(p.images)
       \o [i \in 1..Len(p.links) |-> ExtractLink(p.links[i], NoRel)]
       \o (IF p.description THEN <<DescriptionLink>> ELSE <<>>)
\* _extract_links: the publication's links in order, then the description
\* link, then the image links
ExtractLinks(p) ==
    [i \in 1..Len(p.links) |-> ExtractLink(p.links[i], NoRel)]
       \o (IF p.description THEN <<DescriptionLink>> ELSE <<>>)
       \o ExtractImageLinks(p.images)

\* _is_acquisition_link
IsAcquisitionLink(link) == \E n \in DOMAIN link.rels : link.rels[n] \in CIRCULATION_ALLOWED

\* _is_open_access_link_; an href that stands for a position is not empty
IsOpenAccessLink(link_data, default_rights_uri) ==
    \/ link_data.rel = OPEN_ACCESS_DOWNLOAD /\ link_data.href # None
    \/ LET rights_uri == IF link_data.rights_uri # "" THEN link_data.rights_uri
                         ELSE default_rights_uri
       IN  /\ link_data.media_type \in BOOK_MEDIA_TYPES
           /\ link_data.href # None
           /\ rights_uri \in OPEN_ACCESS

\* the FormatData made of one link: a pair of the link and its LinkData
FormatsOfLink(pairs, parsed_link) ==
    [k \in 1..Len(pairs) |->
        [content_type |-> pairs[k][1], drm_scheme |-> pairs[k][2], link |-> parsed_link,
         rights_uri |-> UNKNOWN_RIGHTS]]

\* _find_formats_in_non_open_access_acquisition_links, from pair n of
\* zip(ast_link_list, link_data_list) on
RECURSIVE FindFormats(_, _, _, _)
FindFormats(ast_link_list, link_data_list, n, out) ==
    IF n > Len(ast_link_list) \/ n > Len(link_data_list) THEN [returned |-> TRUE, list |-> out]
    ELSE IF ~IsAcquisitionLink(ast_link_list[n])
         THEN FindFormats(ast_link_list, link_data_list, n + 1, out)
    ELSE IF IsOpenAccessLink(link_data_list[n], UNKNOWN_RIGHTS)
         THEN FindFormats(ast_link_list, link_data_list, n + 1, out)
    ELSE LET f == ExtractMediaTypesAndDrmScheme(ast_link_list[n]) IN
         IF ~f.returned THEN [returned |-> FALSE, list |-> out]
         ELSE FindFormats(ast_link_list, link_data_list, n + 1,
                          out \o FormatsOfLink(f.list, link_data_list[n]))

NoManifest == [links |-> <<>>, description |-> FALSE, images |-> <<>>]
NoCirculation == [returned |-> FALSE, links |-> <<>>, formats |-> <<>>]

MetadataIdle ==
    /\ pub = NoManifest
    /\ circulation = NoCirculation

\* lines 655-685 of _extract_publication_metadata: the links, then the
\* formats of the CirculationData
extract_publication_metadata(p) ==
    LET ls == ExtractLinks(p)
        formats_found == FindFormats(p.links, ls, 1, <<>>)
    IN  /\ pub' = p
        /\ circulation' = IF formats_found.returned
                          THEN [returned |-> TRUE, links |-> ls, formats |-> formats_found.list]
                          ELSE NoCirculation
        /\ UNCHANGED notMetadata

MetadataNext ==
    MetadataIdle /\ \E n \in 0..MaxPublicationLinks, d \in BOOLEAN, c \in 0..1 :
                       \E raw \in [1..n -> RawLinks] :
                          extract_publication_metadata(
                              [links |-> DeclaredLinks(raw), description |-> d,
                               images |-> Declared([i \in 1..c |-> CoverImage])])

(***************************************************************************)
(* The catalog under OPDSImporter.import_from_feed                         *)
(*                                                                         *)
(* An Edition row has the data source and the identifier it was created    *)
(* for and a title; its place in the sequence stands for the row itself.   *)
(* An entry of the feed names an identifier and a title.                   *)
(***************************************************************************)
DataSources == {"Gutenberg", "Overdrive"}
ForeignIds == {"10441", "10557"}
Titles == {"The Green Mouse", "Johnny Crow's Party"}
FeedEntries == [identifier : ForeignIds, title : Titles]

\* the rows of that data source and identifier
EditionsFor(es, source, identifier) ==
    {n \in DOMAIN es : es[n].source = source /\ es[n].identifier = identifier}

\* an upsert that never finds the row
Existing_none(es, source, identifier) == {}
\* Edition.for_foreign_id: get_one_or_create by data source and identifier
Existing(es, source, identifier) == EditionsFor(es, source, identifier)

\* the entries of the feed from entry n on, imported in order
RECURSIVE ImportEntries(_, _, _, _)
ImportEntries(source, feed, n, acc) ==
    IF n > Len(feed) THEN acc
    ELSE LET found == Existing(acc.editions, source, feed[n].identifier)
             at == IF found = {} THEN Len(acc.editions) + 1
                   ELSE CHOOSE e \in found : \A o \in found : e <= o
         IN ImportEntries(source, feed, n + 1,
               [editions |-> IF found = {}
                             THEN Append(acc.editions,
                                         [source |-> source,
                                          identifier |-> feed[n].identifier,
                                          title |-> feed[n].title])
                             ELSE [acc.editions EXCEPT ![at].title = feed[n].title],
                returned |-> Append(acc.returned, at),
                fresh |-> IF found = {} THEN acc.fresh \cup {at} ELSE acc.fresh])

\* import_from_feed(feed) by an importer of that data source, from catalog es
ImportFromFeed(source, feed, es) ==
    ImportEntries(source, feed, 1, [editions |-> es, returned |-> <<>>, fresh |-> {}])

NoImport == [source |-> "", returned |-> <<>>, fresh |-> {}]

CatalogIdle ==
    /\ editions = <<>>
    /\ imp = NoImport

\* import_from_feed(feed), without a cutoff
import_feed(source, feed) ==
    LET r == ImportFromFeed(source, feed, editions)
    IN  /\ editions' = r.editions
        /\ imp' = [source |-> source, returned |-> r.returned, fresh |-> r.fresh]
        /\ UNCHANGED notCatalog

CatalogNext ==
    \E source \in DataSources, n \in 0..MaxFeedEntries :
       \E feed \in [1..n -> FeedEntries] : import_feed(source, feed)

(***************************************************************************)
(* The works made by OPDSImporter.import_from_feed                         *)
(*                                                                         *)
(* A Work row has the data source and the identifier of the license pool   *)
(* it was calculated for, and its presentation_ready field.  An entry of   *)
(* the feed names an identifier and says whether it names its license      *)
(* source: without one the entry gets no license pool and no work.         *)
(***************************************************************************)
WorkEntries == [identifier : ForeignIds, licensed : BOOLEAN]

\* the works of that data source and identifier
WorksFor(ws, source, identifier) ==
    {n \in DOMAIN ws : ws[n].source = source /\ ws[n].identifier = identifier}

\* every new work is made ready, whatever the caller asked for
NewWork_ready(immediately_presentation_ready) == TRUE
\* presentation_ready of a work the import created
NewWork(immediately_presentation_ready) == immediately_presentation_ready

\* the entries of the feed from entry n on: a work for each licensed entry
\* that has none yet; a work that exists is left as it is
RECURSIVE MakeWorks(_, _, _, _, _)
MakeWorks(source, feed, n, immediately_presentation_ready, acc) ==
    IF n > Len(feed) THEN acc
    ELSE LET found == WorksFor(acc.works, source, feed[n].identifier)
         IN  IF feed[n].licensed /\ found = {}
             THEN MakeWorks(source, feed, n + 1, immediately_presentation_ready,
                     [works |-> Append(acc.works,
                                  [source |-> source,
                                   identifier |-> feed[n].identifier,
                                   presentation_ready |->
                                       NewWork(immediately_presentation_ready)]),
                      created |-> acc.created \cup {Len(acc.works) + 1}])
             ELSE MakeWorks(source, feed, n + 1, immediately_presentation_ready, acc)

NoWorksMade == [called |-> FALSE, immediately_presentation_ready |-> FALSE,
                created |-> {}, kept |-> TRUE]

WorksIdle ==
    /\ works = <<>>
    /\ made = NoWorksMade

\* import_from_feed(feed, immediately_presentation_ready=...)
import_works(source, feed, immediately_presentation_ready) ==
    LET r == MakeWorks(source, feed, 1, immediately_presentation_ready,
                       [works |-> works, created |-> {}])
    IN  /\ works' = r.works
        /\ made' = [called |-> TRUE,
                    immediately_presentation_ready |-> immediately_presentation_ready,
                    created |-> r.created,
                    kept |-> (SubSeq(r.works, 1, Len(works)) = works)]
        /\ UNCHANGED notWorks

WorksNext ==
    \E source \in DataSources, immediately_presentation_ready \in BOOLEAN,
       n \in 0..MaxFeedEntries :
       \E feed \in [1..n -> WorkEntries] :
          import_works(source, feed, immediately_presentation_ready)

(***************************************************************************)
(* Specifications: one per part.                                           *)
(***************************************************************************)
Init == CacheIdle /\ FeedIdle /\ MirrorIdle /\ SyncIdle /\ LinksIdle /\ RunIdle /\ ExtractIdle
        /\ CatalogIdle
        /\ WorksIdle
        /\ ImagesIdle
        /\ MetadataIdle

SpecCache == Init /\ [][CacheNext]_vars
SpecUpdate == Init /\ [][UpdateNext]_vars
SpecFeed == Init /\ [][FeedNext]_vars
SpecMirror == Init /\ [][MirrorNext]_vars
SpecSync == Init /\ [][SyncNext]_vars
SpecLinks == Init /\ [][LinksNext]_vars
\* one worker drives the run and does not stop between two steps; a fetch and
\* an upload end, with an answer or with an error
SpecRun == Init /\ [][RunNext]_vars /\ WF_vars(RunNext)
SpecExtract == Init /\ [][ExtractNext]_vars
SpecCatalog == Init /\ [][CatalogNext]_vars
SpecWorks == Init /\ [][WorksNext]_vars
SpecImages == Init /\ [][ImagesNext]_vars
SpecMetadata == Init /\ [][MetadataNext]_vars

(***************************************************************************)
(* Claims about HasSessionCache, checked under SpecCache.                  *)
(***************************************************************************)
\* what the database holds once the unit of work is committed
Persisted(d) == {<<o, d[o].id, d[o].key>> : o \in {p \in Objs : d[p].st = "live"}}

Cached(c, l) == IF l.name = "id" THEN c.id[l.id] ELSE c.key[l.key]

\* the live records the lookup's hook queries for
Queried(d, l) == IF l.name = "id" THEN LiveWithId(d, l.id) ELSE LiveWithKey(d, l.key)

\* the lookup returned what its hook's query yields
ReturnedFromHook(l) ==
    /\ l.misses = 1 /\ l.hits = 0
    /\ IF ret[1] = None THEN Queried(db, l) = {} ELSE ret[1] \in Queried(db, l)

\* C14: a lookup never returns through a cache hit a record that is absent
\* from the session or pending deletion; a cached entry of that kind is
\* evicted, the lookup is retried, and the caller receives what the miss hook
\* returns.
C14_NoStaleHit ==
    /\ lookup.hits = 1 => ret[1] = lookup.found /\ ret[1] # None /\ db[ret[1]].st = "live"
    /\ (lookup.found # None /\ db[lookup.found].st # "live") =>
          /\ lookup.retries >= 1
          /\ Cached(cache, lookup) # lookup.found
          /\ ret[1] # lookup.found
          /\ ReturnedFromHook(lookup)

\* C14 witness: the lookup found a record that was no longer live under its
\* key, evicted it, retried, and returned the record its hook produced.
C14_Witness ==
    /\ lookup.found # None
    /\ db[lookup.found].st # "live"
    /\ lookup.retries >= 1
    /\ ret[1] # None

\* C15: a lookup that does not answer from the cache calls its miss hook
\* exactly once and returns the hook's (record, new) pair; the record is
\* stored in both tables, under its id and under its cache key, when it is
\* not None, and when it is None nothing is stored under the key asked for, so
\* that the next lookup of the key misses again.
C15_MissCallsHookOnce ==
    (lookup.name # "" /\ lookup.hits = 0) =>
        /\ ReturnedFromHook(lookup)
        /\ ret[2] <=> Cardinality(Rows(db)) > lookup.rows
        /\ IF ret[1] # None
           THEN cache.id[db[ret[1]].id] = ret[1] /\ cache.key[db[ret[1]].key] = ret[1]
           ELSE Cached(cache, lookup) = None

\* C15 witness: the lookup missed with nothing cached under the key and its
\* hook created the record, which is returned as new and cached.
C15_Witness ==
    /\ lookup.misses = 1
    /\ lookup.found = None
    /\ ret[1] # None
    /\ ret[2]
    /\ cache.key[lookup.key] = ret[1]

\* the tables without the entries that hold object o
Without(c, o) ==
    [id |-> [i \in Objs |-> IF c.id[i] = o THEN None ELSE c.id[i]],
     key |-> [k \in Keys |-> IF c.key[k] = o THEN None ELSE c.key[k]]]

InIdTable(c, o) == \E i \in Objs : c.id[i] = o
InKeyTable(c, o) == \E k \in Keys : c.key[k] = o

\* C16: remove of a record that both tables hold, and whose id and key can
\* be read, removes that record's two entries and leaves every other entry
\* as it was; remove of any other record clears both tables.
C16_RemoveExactOrClear ==
    [][\A o \in Objs :
          cache_remove(o) =>
             IF Readable(db[o]) /\ InIdTable(cache, o) /\ InKeyTable(cache, o)
             THEN cache' = Without(cache, o)
             ELSE cache' = EmptyCache]_vars

\* the records a table holds
RecordsOf(table) == {table[x] : x \in DOMAIN table} \ {None}

\* C24: the by-id table and the by-key table hold the same set of records.
C24_TablesInLockStep ==
    RecordsOf(cache.id) = RecordsOf(cache.key)

\* the number of entries of the two tables
Entries(c) ==
    Cardinality({i \in Objs : c.id[i] # None}) + Cardinality({k \in Keys : c.key[k] # None})

\* the objects a lookup can find in a table and take for stale
StaleCached(d, c) ==
    {o \in RecordsOf(c.id) \cup RecordsOf(c.key) : ~InSession(d[o]) \/ InDeleted(d[o])}

\* a lookup called now returns within the retries it is given, after no more
\* retries than the tables have entries
Terminates(name, x, h) ==
    LET r == CacheLookup(db, cache, name, x, h, MaxRetries)
    IN  r.returned /\ r.retries <= Entries(cache)

\* C25: in every state every lookup, by id or by cache key, returns after at
\* most as many retries as the tables hold entries, and evicting a stale
\* record the tables hold removes at least one entry; the last lookup retried
\* at most twice.
C25_LookupTerminates ==
    /\ \A i \in Objs : Terminates("id", i, [kind |-> "get_one_id", arg |-> i])
    /\ \A k \in Keys, kind \in {"get_one", "get_one_or_create"} :
          HookCanRun([kind |-> kind, arg |-> k], db)
             => Terminates("key", k, [kind |-> kind, arg |-> k])
    /\ \A o \in StaleCached(db, cache) : Entries(CacheRemove(o, db, cache)) < Entries(cache)
    /\ lookup.retries <= 2

\* a lookup found a stale record under a key that is not the record's own,
\* and returned after two retries
C25_Witness ==
    /\ lookup.retries = 2
    /\ lookup.found # None
    /\ lookup.name = "key"
    /\ db[lookup.found].key # lookup.key

\* C29: a lookup that returned added exactly 1 to cache.stats.hits and
\* cache.stats.misses together, whatever it evicted on the way: a hit when it
\* found a record and did not retry, a miss otherwise; an operation that is
\* not a lookup added nothing.
C29_OneCountPerLookup ==
    /\ lookup.name # "" =>
          /\ lookup.hits + lookup.misses = 1
          /\ lookup.hits = 1 <=> (lookup.found # None /\ lookup.retries = 0)
    /\ lookup.name = "" => lookup.hits = 0 /\ lookup.misses = 0

\* a lookup evicted a stale record, tried again and counted one miss
C29_Witness ==
    /\ lookup.name # ""
    /\ lookup.retries > 0
    /\ lookup.misses = 1
    /\ lookup.hits = 0

(***************************************************************************)
(* Claims about extract_feed_data, checked under SpecFeed.                 *)
(***************************************************************************)
\* the Metadata mapping holds an entry for this Identifier
HasMetadataFor(identifier) ==
    metadata[identifier.value] # NoEntry /\ metadata[identifier.value].ident = identifier

\* the failures mapping holds a CoverageFailure for this Identifier
HasFailureFor(identifier) ==
    \E j \in 1..Len(failures[identifier.value]) : failures[identifier.value][j].ident = identifier

\* C2: a publication whose extraction raises does not make the call raise:
\* the call returns, with a CoverageFailure under that publication's
\* identifier and with every other publication of the page processed.
C2_FailureIsIsolated ==
    \A i \in 1..Len(pubs) :
        pubs[i].raises =>
            /\ fpc # "raised"
            /\ fpc = "returned" => Len(pubs) = npubs /\ HasFailureFor(pubs[i].ident)

\* C9: when the call has returned, every publication of the page is a skip,
\* or has an entry for its Identifier in the Metadata mapping, or has a
\* CoverageFailure for its Identifier in the failures mapping.
C9_EveryPublicationAccounted ==
    fpc = "returned" =>
        \A i \in 1..npubs :
            \/ i \in skipped
            \/ HasMetadataFor(pubs[i].ident)
            \/ HasFailureFor(pubs[i].ident)

C23_LastWriteWins ==
    fpc = "returned" =>
        \A i, j \in 1..npubs :
            (i < j /\ pubs[i].ident = pubs[j].ident /\ j \notin skipped
               /\ \A k \in 1..npubs : k > j => pubs[k].ident # pubs[j].ident)
            => HasMetadataFor(pubs[j].ident) /\ metadata[pubs[j].ident.value].pub = j

\* C30: when the call has returned, the failures mapping holds, under the
\* identifier of every publication that was not skipped, one CoverageFailure
\* for each error the parser reported for that publication.
C30_OneFailurePerError ==
    fpc = "returned" =>
        \A i \in 1..npubs :
            i \notin skipped =>
                Cardinality({j \in 1..Len(failures[pubs[i].ident.value]) :
                                failures[pubs[i].ident.value][j].node = i}) = reported[i]

(***************************************************************************)
(* Claims about S3Uploader.mirror_batch, checked under SpecMirror.         *)
(***************************************************************************)
MirrorState(rep) == <<rep.mirrored_at, rep.mirror_exception>>

\* C6: once the upload response of a representation has been processed, the
\* representation is marked mirrored (mirrored_at set, exception cleared) if
\* the status is any 2xx code, and otherwise carries the status code and body
\* as mirror_exception with mirrored_at cleared.
C6_ResponseDecidesState ==
    lastResp.req # 0 =>
        LET rep == reps[lastResp.req] IN
        IF lastResp.code \in 200..299
        THEN rep.mirrored_at = "now" /\ rep.mirror_exception = NoException
        ELSE /\ rep.mirrored_at = NoTime
             /\ rep.mirror_exception = [code |-> lastResp.code, content |-> lastResp.content]

\* C7: a connection or HTTP error raised while responses are resolved is
\* logged and mirror_batch returns; representations whose responses were
\* processed keep their state and the remaining ones are as they were on
\* entry, neither marked mirrored nor marked failed by the call.
C7_TransportErrorIsContained ==
    exc \in {"ConnectionError", "HTTPError"} =>
        /\ mpc # "raised"
        /\ logged = <<exc>>
        /\ \A r \in 1..Len(reps) \ done : MirrorState(reps[r]) = MirrorState(entry[r])

\* C8: when mirror_batch exits, by returning or by raising, every content
\* handle it opened is closed.
C8_HandlesClosedOnExit ==
    mpc \in {"returned", "raised"} =>
        \A i \in 1..Len(filehandles) : filehandles[i] = "closed"

\* the call recorded an outcome for the representation: it is marked
\* mirrored by this call, or carries the body of a response of this call
HasOutcome(rep) == rep.mirrored_at = "now" \/ rep.mirror_exception.content = "body"

\* C28: the response that was processed last has set the state of the
\* representation whose upload it answers, and when mirror_batch has returned
\* with no transport error every representation of the batch has a recorded
\* outcome, whatever the order of the responses and the destination URLs.
C28_OwnOutcome ==
    /\ lastResp.req # 0 =>
          MirrorState(reps[lastResp.req])
             = MirrorState(ProcessResponse(reps[lastResp.req], lastResp))
    /\ (mpc = "returned" /\ exc = "") => \A r \in 1..Len(reps) : HasOutcome(reps[r])

(***************************************************************************)
(* Claims about the sync run, checked under SpecSync.                      *)
(***************************************************************************)
\* C3: a publication is imported in a run if and only if no cutoff was
\* supplied, or it was not imported before, or its last-modified timestamp
\* is strictly after the cutoff; with a timestamp equal to the cutoff an
\* already-imported publication is skipped.
C3_CutoffPolicy ==
    \A p \in 1..(pos - 1) :
        p \in imported <=> (cutoff = None \/ p \notin before \/ updated[p] > cutoff)

\* C3 witness: a run with a cutoff has ended; of two publications the
\* catalog already held, the one dated at the cutoff was skipped and the one
\* dated after it was imported.
C3_Witness ==
    /\ spc = "done"
    /\ cutoff # None
    /\ \E p \in before : updated[p] = cutoff /\ p \notin imported
    /\ \E q \in before : updated[q] > cutoff /\ q \in imported

\* a completed run that repeats the completed run before it: same feed,
\* same cutoff
RunRepeated == spc = "done" /\ repeated.feed /\ repeated.cutoff /\ cutoff # None

HandledMirrored == spc \in {"page", "done"} /\ last.pub # 0 /\ last.was # NoTime

\* the upload of the publication handled last succeeded
UploadSucceeded ==
    \/ uploader = "S3Uploader" /\ last.answered = 200
    \/ uploader = "DummyS3Uploader"

\* C5 as stated: for a representation already marked mirrored, a fetch
\* answered "not modified" issues no upload and leaves mirrored_at as it
\* was; a fetch that returns content issues exactly one upload and updates
\* mirrored_at.
C5_ChangeDetection ==
    HandledMirrored =>
        LET rep == catalog[last.pub].rep IN
        /\ last.fetched = "304" => last.uploads = 0 /\ rep.mirrored_at = last.was
        /\ last.fetched = "200" => last.uploads = 1 /\ rep.mirrored_at = "now"

\* C5 as amended: the same, with mirrored_at updated when the one upload
\* succeeds.
C5_ChangeDetectionOnSuccess ==
    HandledMirrored =>
        LET rep == catalog[last.pub].rep IN
        /\ last.fetched = "304" => last.uploads = 0 /\ rep.mirrored_at = last.was
        /\ last.fetched = "200" =>
               /\ last.uploads = 1
               /\ UploadSucceeded => rep.mirrored_at = "now"

\* C5 witness: a book mirrored in an earlier run was fetched with new
\* content, uploaded through S3Uploader, answered 200 and marked mirrored now.
C5_Witness ==
    /\ HandledMirrored
    /\ last.fetched = "200"
    /\ uploader = "S3Uploader"
    /\ last.answered = 200
    /\ catalog[last.pub].rep.mirrored_at = "now"

(***************************************************************************)
(* Claims about consolidate_links, checked under SpecLinks.                *)
(***************************************************************************)
\* the positions of the output, and what the output holds of input link i
Out == 1..Len(consolidated)
InOutput(i) == \E k \in Out : consolidated[k].id = i
ThumbnailOf(i) == {consolidated[k].thumbnail : k \in {j \in Out : consolidated[j].id = i}}
Attached(i) == \E k \in Out : consolidated[k].thumbnail = i
Rel(i) == IF i \in 1..Len(links) THEN links[i] ELSE ""

\* C11: a thumbnail link is paired with the image link next after it: that
\* image is in the output with the thumbnail attached, and the thumbnail is
\* not; [thumbnail, image, thumbnail, image] gives two images with t1 and t2
\* attached, [thumbnail, image, image] two images, the second bare.
C11_ThumbnailPairsWithNextImage ==
    /\ \A i \in 1..Len(links) :
          Rel(i) = THUMBNAIL_IMAGE /\ Rel(i + 1) = IMAGE =>
              ThumbnailOf(i + 1) = {i} /\ ~InOutput(i)
    /\ links = <<THUMBNAIL_IMAGE, IMAGE, THUMBNAIL_IMAGE, IMAGE>> =>
          consolidated = <<[id |-> 2, rel |-> IMAGE, thumbnail |-> 1],
                           [id |-> 4, rel |-> IMAGE, thumbnail |-> 3]>>
    /\ links = <<THUMBNAIL_IMAGE, IMAGE, IMAGE>> =>
          consolidated = <<[id |-> 2, rel |-> IMAGE, thumbnail |-> 1],
                           [id |-> 3, rel |-> IMAGE, thumbnail |-> None]>>

\* C11 witness: the first list of the test was consolidated
C11_Witness ==
    /\ links = <<THUMBNAIL_IMAGE, IMAGE, THUMBNAIL_IMAGE, IMAGE>>
    /\ Len(consolidated) = 2

\* no image link after position i
NoImageAfter(i) == \A j \in (i + 1)..Len(links) : links[j] # IMAGE

\* C12 as stated: a thumbnail link with no image link after it is not in
\* the output and is attached to no link; [thumbnail] gives [].
C12_TrailingThumbnailDropped ==
    /\ \A i \in 1..Len(links) :
          links[i] = THUMBNAIL_IMAGE /\ NoImageAfter(i) => ~InOutput(i) /\ ~Attached(i)
    /\ links = <<THUMBNAIL_IMAGE>> => consolidated = <<>>

\* C12 as amended: such a thumbnail is not in the output, and is attached
\* to no link unless it directly follows an image link; [thumbnail] gives [].
C12_UnpairedThumbnailDropped ==
    /\ \A i \in 1..Len(links) :
          links[i] = THUMBNAIL_IMAGE /\ NoImageAfter(i) =>
              /\ ~InOutput(i)
              /\ Rel(i - 1) # IMAGE => ~Attached(i)
              /\ \A k \in Out : consolidated[k].thumbnail = i => consolidated[k].id = i - 1
    /\ links = <<THUMBNAIL_IMAGE>> => consolidated = <<>>

\* C12 witness: a list that ends with a thumbnail after a link that is no
\* image was consolidated, and the links before the thumbnail were kept
C12_Witness ==
    /\ Len(links) > 1
    /\ links[Len(links)] = THUMBNAIL_IMAGE
    /\ links[Len(links) - 1] = OPEN_ACCESS_DOWNLOAD
    /\ consolidated # <<>>

\* the links of the input that are no thumbnails, in input order
RECURSIVE NonThumbnails(_)
NonThumbnails(n) ==
    IF n = 0 THEN <<>>
    ELSE IF links[n] = THUMBNAIL_IMAGE THEN NonThumbnails(n - 1)
    ELSE Append(NonThumbnails(n - 1), n)

\* the output holds the non-thumbnail links and nothing else, in input order
OrderKept == [k \in Out |-> consolidated[k].id] = NonThumbnails(Len(links))

\* C13 as stated: a thumbnail link directly after an image link is attached
\* to that image and is not in the output; the non-thumbnail links keep
\* their order; [open-access, image, thumbnail, open-access] gives
\* [open-access, image with the thumbnail, open-access].
C13_ThumbnailAfterImageAttached ==
    /\ \A i \in 1..Len(links) :
          Rel(i) = THUMBNAIL_IMAGE /\ Rel(i - 1) = IMAGE =>
              ThumbnailOf(i - 1) = {i} /\ ~InOutput(i)
    /\ OrderKept
    /\ links = <<OPEN_ACCESS_DOWNLOAD, IMAGE, THUMBNAIL_IMAGE, OPEN_ACCESS_DOWNLOAD>> =>
          consolidated = <<[id |-> 1, rel |-> OPEN_ACCESS_DOWNLOAD, thumbnail |-> None],
                           [id |-> 2, rel |-> IMAGE, thumbnail |-> 3],
                           [id |-> 4, rel |-> OPEN_ACCESS_DOWNLOAD, thumbnail |-> None]>>

\* C13 as amended: the same for a thumbnail that is not directly followed
\* by an image link, after an image link not already paired with the
\* thumbnail before it; every thumbnail is removed from the output.
C13_ThumbnailAfterFreeImageAttached ==
    /\ \A i \in 1..Len(links) :
          /\ Rel(i) = THUMBNAIL_IMAGE
          /\ Rel(i - 1) = IMAGE
          /\ Rel(i + 1) # IMAGE
          /\ Rel(i - 2) # THUMBNAIL_IMAGE
          => ThumbnailOf(i - 1) = {i}
    /\ OrderKept
    /\ links = <<OPEN_ACCESS_DOWNLOAD, IMAGE, THUMBNAIL_IMAGE, OPEN_ACCESS_DOWNLOAD>> =>
          consolidated = <<[id |-> 1, rel |-> OPEN_ACCESS_DOWNLOAD, thumbnail |-> None],
                           [id |-> 2, rel |-> IMAGE, thumbnail |-> 3],
                           [id |-> 4, rel |-> OPEN_ACCESS_DOWNLOAD, thumbnail |-> None]>>

\* C13 witness: the first list of the test was consolidated
C13_Witness ==
    /\ links = <<OPEN_ACCESS_DOWNLOAD, IMAGE, THUMBNAIL_IMAGE, OPEN_ACCESS_DOWNLOAD>>
    /\ Len(consolidated) = 3

Passed(n) == SubSeq(PageStates, 1, n)

\* C18: the run never starts to fetch the next page while an upload of a
\* mirror candidate of the current page is still awaited, and each page
\* passes through FETCH_PAGE, FILTER_IDENTIFIERS, EXTRACT, PERSIST, MIRROR
\* and RECORD_RESULT in that order.
C18_PageByPage ==
    /\ rpc \in {"FETCH_PAGE", "DONE"} =>
          /\ \A c \in DOMAIN cands : cands[c] # "pending"
          /\ trail \in {<<>>, PageStates}
    /\ \A n \in 1..Len(PageStates) : rpc = PageStates[n] /\ n > 1 => trail = Passed(n - 1)

\* C18 witness: the run is about to fetch a second page after the uploads of
\* the first ended, one mirrored and one failed.
C18_Witness ==
    /\ rpc = "FETCH_PAGE"
    /\ trail = PageStates
    /\ \E c, e \in DOMAIN cands : cands[c] = "mirrored" /\ cands[e] = "failed"

(***************************************************************************)
(* Claims about formats and medium, checked under SpecExtract.             *)
(***************************************************************************)
\* the medium a link yields: that of the media type of its first format
Yields(link) ==
    LET f == ExtractMediaTypesAndDrmScheme(link) IN
    IF f.returned /\ f.list # <<>> THEN MediumFromMediaType(f.list[1][1]) ELSE NoMedium

\* the medium of the first acquisition link that yields one
FirstYielded(ls) ==
    LET ys == {n \in DOMAIN ls : ~PassedOver(ls[n]) /\ Yields(ls[n]) # NoMedium} IN
    IF ys = {} THEN NoMedium ELSE Yields(ls[CHOOSE n \in ys : \A k \in ys : n <= k])

\* C19: the medium extracted for a publication is the one its declared type
\* maps to; without such a type it is the medium of the first acquisition
\* link that yields one, and 'Book' when no link yields one: it is never
\* absent.
C19_MediumNeverAbsent ==
    medium.returned =>
       /\ medium.medium # NoMedium
       /\ medium.medium =
             IF publication.type \in AdditionalTypes THEN AdditionalTypeToMedium(publication.type)
             ELSE IF FirstYielded(publication.links) # NoMedium
                  THEN FirstYielded(publication.links)
                  ELSE BOOK_MEDIUM

\* the type of the innermost child of an entry
Innermost(chain) == chain[Len(chain)]

\* C20: for a link with properties whose availability is undeclared or
\* 'available' the format derivation returns one (content type, DRM scheme)
\* pair per indirect-acquisition entry, whatever the depth of its chain: the
\* type of the innermost child, and the entry's own type when that is a known
\* DRM scheme, 'no DRM' otherwise; with any other availability it returns no
\* format.
C20_OnePairPerEntry ==
    acquisition.properties.declared =>
       LET entries == acquisition.properties.indirect_acquisition IN
       /\ formats.returned
       /\ IF acquisition.properties.availability \in {"", AVAILABLE}
          THEN /\ Len(formats.list) = Len(entries)
               /\ \A n \in DOMAIN entries :
                     formats.list[n] =
                        <<Innermost(entries[n]),
                          IF entries[n][1] \in KNOWN_DRM_TYPES THEN entries[n][1] ELSE NO_DRM>>
          ELSE formats.list = <<>>

(***************************************************************************)
(* Claims about the catalog                                                *)
(***************************************************************************)
\* the feeds of at most MaxFeedEntries entries
FeedsOf(n) == [1..n -> FeedEntries]

\* importing the feed again, right after importing it from this catalog,
\* returns the same rows and creates none
SameAgain(source, feed) ==
    LET first == ImportFromFeed(source, feed, editions)
        second == ImportFromFeed(source, feed, first.editions)
    IN  /\ second.returned = first.returned
        /\ second.fresh = {}
        /\ second.editions = first.editions

\* the rows an import of the feed returns carry the title the feed gives last
\* for their identifier
Updated(source, feed) ==
    LET r == ImportFromFeed(source, feed, editions)
    IN  \A k \in DOMAIN feed :
           /\ r.editions[r.returned[k]].identifier = feed[k].identifier
           /\ r.editions[r.returned[k]].source = source
           /\ (\A j \in DOMAIN feed :
                  (j > k => feed[j].identifier # feed[k].identifier))
                => r.editions[r.returned[k]].title = feed[k].title

\* C21: the catalog holds at most one edition per (data source, identifier);
\* every edition the last import returned is a row of the importer's data
\* source, and importing any feed updates the editions it returns and, done
\* twice in a row, returns the same editions both times.
C21_OneEditionPerIdentifier ==
    /\ \A m, n \in DOMAIN editions :
          (editions[m].source = editions[n].source
             /\ editions[m].identifier = editions[n].identifier) => m = n
    /\ \A k \in DOMAIN imp.returned :
          /\ imp.returned[k] \in DOMAIN editions
          /\ editions[imp.returned[k]].source = imp.source
    /\ \A source \in DataSources, n \in 0..MaxFeedEntries :
          \A feed \in FeedsOf(n) : SameAgain(source, feed) /\ Updated(source, feed)

\* an import into a catalog of several editions returned a row it did not
\* create
C21_Witness ==
    /\ imp.returned # <<>>
    /\ imp.fresh = {}
    /\ Len(editions) > 1

(***************************************************************************)
(* Claims about the works                                                  *)
(***************************************************************************)
\* C22: a work the last import created is presentation-ready if and only if
\* the import was called with immediately_presentation_ready set; the works
\* that were there before are as they were.
C22_ReadyIffFlag ==
    /\ \A w \in made.created :
          /\ w \in DOMAIN works
          /\ works[w].presentation_ready = made.immediately_presentation_ready
    /\ made.kept

\* works were created under both values of the flag
C22_Witness ==
    /\ made.created # {}
    /\ \E w \in made.created : \E o \in DOMAIN works \ made.created :
          works[o].presentation_ready # works[w].presentation_ready

(***************************************************************************)
(* Claims about _extract_image_links, checked under SpecImages.            *)
(***************************************************************************)
\* image a ranks before image b: greater key, or equal key and declared later
RanksBefore(a, b) ==
    \/ KeyLess(SortKey(b), SortKey(a))
    \/ SortKey(a) = SortKey(b) /\ a.href > b.href

\* image a ranks before image b when equal keys keep their declared order
RanksBeforeDeclared(a, b) ==
    \/ KeyLess(SortKey(b), SortKey(a))
    \/ SortKey(a) = SortKey(b) /\ a.href < b.href

\* the image of that rank, under either order
Ranked(r, later) ==
    CHOOSE i \in DOMAIN images :
        Cardinality({j \in DOMAIN images :
            IF later THEN RanksBefore(images[j], images[i])
            ELSE RanksBeforeDeclared(images[j], images[i])}) = r - 1

\* C26 as stated: at most two links; the first is the image of the greatest
\* (width, height), the earliest declared of them, with relation image, the
\* second the next one, with relation thumbnail.
C26_LargestThenSecond ==
    imageLinks.returned =>
        /\ Len(imageLinks.list) = IF Len(images) < 2 THEN Len(images) ELSE 2
        /\ Len(images) > 0 =>
              /\ imageLinks.list[1].rel = IMAGE
              /\ imageLinks.list[1].href = Ranked(1, FALSE)
        /\ Len(images) > 1 =>
              /\ imageLinks.list[2].rel = THUMBNAIL_IMAGE
              /\ imageLinks.list[2].href = Ranked(2, FALSE)

\* C26 amended: at most two links; the first is the image of the greatest
\* (width, height), the latest declared of them, the second the next one;
\* each has the first relation its image declares, and image for the first
\* and thumbnail for the second when the image declares none.
C26_LargestLatestThenSecond ==
    imageLinks.returned =>
        /\ Len(imageLinks.list) = IF Len(images) < 2 THEN Len(images) ELSE 2
        /\ Len(images) > 0 =>
              LET i == Ranked(1, TRUE) IN
              /\ imageLinks.list[1].href = i
              /\ imageLinks.list[1].rel =
                    IF images[i].rels = <<>> THEN IMAGE ELSE images[i].rels[1]
        /\ Len(images) > 1 =>
              LET i == Ranked(2, TRUE) IN
              /\ imageLinks.list[2].href = i
              /\ imageLinks.list[2].rel =
                    IF images[i].rels = <<>> THEN THUMBNAIL_IMAGE ELSE images[i].rels[1]

\* three images, the two largest of the same size and without dimensions for
\* one of them to count as 0: the later of the two is the cover
C26_Witness ==
    /\ imageLinks.returned
    /\ Len(images) = 3
    /\ \E i, j \in DOMAIN images :
          /\ i < j
          /\ SortKey(images[i]) = SortKey(images[j])
          /\ \A k \in DOMAIN images : ~KeyLess(SortKey(images[i]), SortKey(images[k]))
          /\ imageLinks.list[1].href = j
          /\ imageLinks.list[2].href = i
    /\ \E k \in DOMAIN images : images[k].width = None /\ images[k].height # None

(***************************************************************************)
(* Claims about the formats of a publication, checked under SpecMetadata.  *)
(***************************************************************************)
\* the pairs of content type and DRM scheme the properties of a link give
PairsOf(link) ==
    LET f == ExtractMediaTypesAndDrmScheme(link)
    IN  {f.list[k] : k \in 1..Len(f.list)}

\* C27: every FormatData of the CirculationData has a link that is in the
\* Metadata's link list, at the position of a link of the publication that
\* is an acquisition link, whose LinkData it is and whose properties give the
\* format's content type and DRM scheme; no FormatData has a link whose
\* LinkData is open access.
C27_FormatLinkIsOwnLink ==
    circulation.returned =>
        \A k \in DOMAIN circulation.formats :
            LET f == circulation.formats[k] IN
            /\ \E j \in DOMAIN pub.links :
                  /\ circulation.links[j] = f.link
                  /\ f.link = ExtractLink(pub.links[j], NoRel)
                  /\ IsAcquisitionLink(pub.links[j])
                  /\ <<f.content_type, f.drm_scheme>> \in PairsOf(pub.links[j])
            /\ f.link.rel # OPEN_ACCESS_DOWNLOAD

\* a publication with a description, an image, an open-access link and an
\* acquisition link behind it, which gave a format
C27_Witness ==
    /\ circulation.returned
    /\ pub.description
    /\ pub.images # <<>>
    /\ Len(pub.links) = 2
    /\ pub.links[1].rels = <<OPEN_ACCESS_DOWNLOAD>>
    /\ circulation.formats # <<>>
    /\ circulation.formats[1].link = circulation.links[2]

====
